---- MODULE Spec2Model ----
(***************************************************************************)
(* The object editor of the game engine (Engine/src/object_editor.py) and  *)
(* the flag/JSON file protocol it speaks with the engine process.          *)
(*                                                                         *)
(* The editor is one Tk thread: a handler runs from the idle main loop to  *)
(* its return.  The engine is another process on the same directory, so a  *)
(* handler is cut at its file operations and the engine's steps interleave *)
(* with them (most visibly during the time.sleep(0.1) of an exchange).     *)
(* pc is the statement the editor is at, stack the callers to return to.   *)
(***************************************************************************)
EXTENDS Integers, Sequences, FiniteSets, TLC

(* ------------------------------------------------------------------ *)
(* Bounds                                                               *)
(* ------------------------------------------------------------------ *)
\* user commands (button presses, closing the engine) after start-up
MaxOps == 2
\* clicks the engine reports

MaxClicks == 1
\* file operations that fail
MaxFaults == 1
\* items of a list and members of an object in a document handed to write_json
MaxItems == 2

(* ------------------------------------------------------------------ *)
(* File names                                                           *)
(* ------------------------------------------------------------------ *)
FileFlags ==
    [ RUNNING        |-> "running.flag",
      PLACEMENT      |-> "placement_mode.flag",
      SHOW_COLLIDERS |-> "show_colliders.flag",
      REQUEST_NODES  |-> "request_nodes.flag",
      CLICK_EVENT    |-> "click_event.flag",
      NODE_OPERATION |-> "node_operation.flag",
      SPAWN_OBJECT   |-> "spawn_object.flag",
      SAVE_SCENE     |-> "save_scene.flag",
      LOAD_SCENE     |-> "load_scene.flag",
      REQUEST_SCENES |-> "request_scenes.flag",
      SCENE_OPERATION |-> "scene_operation.flag",
      SWITCH_SCENE   |-> "switch_scene.flag",
      MODE_SWITCH    |-> "mode_switch.flag" ]

FileNames ==
    [ AVAILABLE_NODES  |-> "available_nodes.json",
      CLICK_EVENT      |-> "click_event.json",
      NODE_OPERATION   |-> "node_operation.json",
      TEMP_OBJECT      |-> "temp_object.json",
      LOAD_SCENE       |-> "load_scene.json",
      AVAILABLE_SCENES |-> "available_scenes.json",
      SCENE_OPERATION  |-> "scene_operation.json",
      SWITCH_SCENE     |-> "switch_scene.json",
      MODE_SWITCH      |-> "mode_switch.json" ]

\* the files the code names by a string literal
SPAWN_ERROR == "spawn_error.json"
ACTIVE_SCENE == "active_scene.json"
MODE7_TEXTURES == "mode7_textures.json"
MODE7_TEXTURES_FLAG == "mode7_textures.flag"

FlagFiles == {FileFlags[n] : n \in DOMAIN FileFlags} \cup {MODE7_TEXTURES_FLAG}
JsonFiles == {FileNames[n] : n \in DOMAIN FileNames}
                 \cup {SPAWN_ERROR, MODE7_TEXTURES}

(* ------------------------------------------------------------------ *)
(* JSON documents.  Every document is a record with a kind k:           *)
(*   "absent"  no such file          "corrupt"  a file that does not    *)
(*   "list"    a JSON array v                   parse (a torn write)    *)
(*   "dict"    a JSON object, its members the other fields              *)
(* None is Python's None.                                               *)
(* ------------------------------------------------------------------ *)
Absent == [k |-> "absent"]
Corrupt == [k |-> "corrupt"]
None == [k |-> "none"]

\* Python truth value of what read_json returned
Truthy(d) ==
    CASE d.k = "list" -> d.v # <<>>
      [] d.k = "dict" -> DOMAIN d # {"k"}
      [] OTHER -> FALSE

\* "key" in d  for a parsed document
HasKey(d, key) == d.k = "dict" /\ key \in DOMAIN d

(* ------------------------------------------------------------------ *)
(* FileManager                                                          *)
(* ------------------------------------------------------------------ *)
\* write_flag up to its yield: open(flag_name, "w") and write; ok is whether
\* the open succeeds.  When it fails the generator ends without yielding and
\* the with statement raises RuntimeError in the caller.
WriteFlagEnter(fl, flag_name, ok) == IF ok THEN fl \cup {flag_name} ELSE fl

\* write_flag after its yield, when the with block is left (normally, by
\* return, or by an exception, which the except clause swallows): nothing
\* is done to the file.
WriteFlagExitRemoves(fl, flag_name) == fl \ {flag_name}
WriteFlagExit(fl, flag_name) == fl

\* read_json: the parsed document, or None when the file is absent or when
\* reading or parsing raises (ok = FALSE is an I/O error of the read).
read_json_ignores_error(js, filename, ok) ==
    IF js[filename] = Absent \/ js[filename] = Corrupt THEN None ELSE js[filename]
read_json(js, filename, ok) ==
    IF js[filename] = Absent \/ js[filename] = Corrupt \/ ~ok
    THEN None
    ELSE js[filename]

\* write_json: how is "ok", "open_fails" (open raises, the file is left as it
\* was) or "dump_fails" (json.dump raises after open truncated the file).
WriteOutcomes == {"ok", "open_fails", "dump_fails"}
write_json_append(js, filename, data, how) ==
    CASE how = "ok" ->
            [js EXCEPT ![filename] =
                IF "toks" \in DOMAIN @ /\ "toks" \in DOMAIN data
                THEN [k |-> "text", toks |-> @.toks \o data.toks] ELSE data]
      [] how = "dump_fails" -> [js EXCEPT ![filename] = Corrupt]
      [] OTHER -> js
write_json_file(js, filename, data, how) ==
    CASE how = "ok" -> [js EXCEPT ![filename] = data]
      [] how = "dump_fails" -> [js EXCEPT ![filename] = Corrupt]
      [] OTHER -> js
write_json_always_true(how) == TRUE
write_json_result(how) == how = "ok"

\* flatten_hierarchy raises KeyError on a node without "name"
RECURSIVE WellFormed(_)
WellFormed(nodes) ==
    IF nodes = <<>> THEN TRUE
    ELSE LET node == Head(nodes) IN
         /\ "name" \in DOMAIN node
         /\ IF "children" \in DOMAIN node /\ node.children # <<>>
            THEN WellFormed(node.children) ELSE TRUE
         /\ WellFormed(Tail(nodes))

RECURSIVE flatten_children_first(_)
flatten_children_first(nodes) ==
    IF nodes = <<>> THEN <<>>
    ELSE LET node == Head(nodes) IN
         (IF "children" \in DOMAIN node /\ node.children # <<>>
          THEN flatten_children_first(node.children) ELSE <<>>)
         \o <<node.name>>
         \o flatten_children_first(Tail(nodes))
RECURSIVE flatten_hierarchy(_)
flatten_hierarchy(nodes) ==
    IF nodes = <<>> THEN <<>>
    ELSE LET node == Head(nodes) IN
         <<node.name>>
         \o (IF "children" \in DOMAIN node /\ node.children # <<>>
             THEN flatten_hierarchy(node.children) ELSE <<>>)
         \o flatten_hierarchy(Tail(nodes))

\* name in flat_nodes
InList(x, s) == \E i \in 1..Len(s) : s[i] = x

\* the hierarchy check of add_node and create_game_object on the document
\* read back: "dup" when the name is in the flattened list, "raise" when
\* flattening raises, "pass" otherwise (also when there is no data)
NameCheckNoDup(node_data, name) ==
    IF ~Truthy(node_data) THEN "pass"
    ELSE IF node_data.k # "list" \/ ~WellFormed(node_data.v) THEN "raise"
    ELSE "pass"
NameCheck(node_data, name) ==
    IF ~Truthy(node_data) THEN "pass"
    ELSE IF node_data.k # "list" \/ ~WellFormed(node_data.v) THEN "raise"
    ELSE IF InList(name, flatten_hierarchy(node_data.v)) THEN "dup"
    ELSE "pass"

(* ------------------------------------------------------------------ *)
(* What the user and the engine can supply                              *)
(* ------------------------------------------------------------------ *)
\* hierarchies the engine answers request_nodes.flag with
H_spec == <<[name |-> "root",
             children |-> <<[name |-> "a", children |-> <<[name |-> "b"]>>],
                            [name |-> "c"]>>]>>
H_bad == <<[children |-> <<>>]>>
NodeDocs == {[k |-> "list", v |-> h] : h \in {<<>>, H_spec, H_bad}}

\* text typed into a name entry, and what str.strip makes of it
NodeNames == {"", " ", "a", "z"}
strip(s) == IF s = " " THEN "" ELSE s
ParentChoices == {"", "root"}
RemoveChoices == {"", "root", "Root", "a"}

\* scene lists the engine answers request_scenes.flag with; the last two are
\* an object without "scenes" and the empty object
SceneDocs == {[k |-> "dict", scenes |-> <<"main", "s">>],
              [k |-> "dict", other |-> "x"],
              [k |-> "dict"]}

\* spawn_error.json as the engine writes it, with and without "error"
SpawnErrorDocs == {[k |-> "dict", error |-> "e"], [k |-> "dict", other |-> "x"]}

\* active_scene.json, the engine's own file, as save_scene finds it: not
\* there, without "activeName", or naming the scene
ActiveSceneDocs == {Absent, [k |-> "dict"], [k |-> "dict", activeName |-> "main"]}

(* ------------------------------------------------------------------ *)
(* State                                                                *)
(* ------------------------------------------------------------------ *)
VARIABLES
    flags,      \* the flag files that exist
    json,       \* JSON file name -> document, Absent when there is no file
    pc,         \* the editor's position: "idle" is the Tk main loop
    stack,      \* callers: [ret |-> where a return goes, exc |-> an exception]
    scopes,     \* flags of the with write_flag blocks the editor is inside
    ticking,    \* an after(16, update_loop) callback is scheduled
    nops,       \* user commands the session still has (closing the engine included)
    nclicks,    \* clicks the engine will still report
    nfaults,    \* file operations that can still fail
    op,         \* the handler the main loop last started
    args,       \* and its inputs
    cg,         \* parameters of the running create_game_object call
    result,     \* how op ended: "pending", "returned", "raised" (the exception
                \* left the handler)
    rejected,   \* the validation that made op give up, else "no"
    wrote,      \* JSON files op's write_json calls wrote
    failed,     \* JSON files op's write_json calls returned False for
    raised,     \* flag files op's write_flag calls created
    obs,        \* what op's last exchange read from its response file
    ed,         \* ObjectEditor fields and widgets
    st,         \* SceneTreeManager widgets
    sm,         \* SceneManager widgets
    bt          \* BitmapTextWindow fields and widgets

vars == <<flags, json, pc, stack, scopes, ticking, nops, nclicks, nfaults, op, args, cg, result,
          rejected, wrote, failed, raised, obs, ed, st, sm, bt>>
uiv == <<ed, st, sm, bt>>

NoArgs == [k |-> "none"]
\* clicks: how often this run of update_loop has read click_event.json
NoObs == [file |-> "-", data |-> None, nodata |-> TRUE, answered |-> FALSE, clicks |-> 0]
TopFrame == [ret |-> "idle", exc |-> "uncaught"]

\* the state before MainApplication() runs
Init ==
    /\ flags = {}
    /\ json = [f \in JsonFiles |-> Absent]
    /\ pc = "boot0"
    /\ stack = <<>>
    /\ scopes = <<>>
    /\ ticking = FALSE
    /\ nops = MaxOps
    /\ nclicks = MaxClicks
    /\ nfaults = MaxFaults
    /\ op = "boot"
    /\ args = NoArgs
    /\ cg = NoArgs
    /\ result = "pending"
    /\ rejected = "no"
    /\ wrote = {}
    /\ failed = {}
    /\ raised = {}
    /\ obs = NoObs
    /\ ed = [placement_mode |-> FALSE, is_mode7 |-> FALSE, show_colliders |-> FALSE,
             texture_path |-> "", name_entry |-> "", parent_node |-> "root",
             textures |-> FALSE, status |-> ""]
    /\ st = [tree |-> <<>>, combo |-> <<>>]
    /\ sm = [scenes |-> <<>>]
    /\ bt = [parent_node |-> "", status |-> ""]

(* ------------------------------------------------------------------ *)
(* Control                                                              *)
(* ------------------------------------------------------------------ *)
\* An exception that leaves a Tk callback is reported by Tk and the main
\* loop goes on ("uncaught"); one that leaves MainApplication() is caught by
\* the __main__ block, which prints it and ends ("fatal").
Land(l) == IF l = "uncaught" THEN "idle" ELSE IF l = "fatal" THEN "exited" ELSE l
ResultAt(l) ==
    CASE l = "idle" -> "returned"
      [] l \in {"uncaught", "fatal"} -> "raised"
      [] OTHER -> "pending"
Jump(l, stk) == pc' = Land(l) /\ stack' = stk /\ result' = ResultAt(l)
Return(stk) == Jump(Head(stk).ret, Tail(stk))
Raise(stk) == Jump(Head(stk).exc, Tail(stk))
Step(l) == pc' = l /\ UNCHANGED <<stack, result>>

\* a file operation succeeds (TRUE) or, while failures are left, fails
Oks == IF nfaults > 0 THEN BOOLEAN ELSE {TRUE}
Spend(ok) == nfaults' = IF ok THEN nfaults ELSE nfaults - 1
\* read_json opens a file that exists; a file that holds no JSON fails to
\* parse whatever else happens
ReadOks(filename) == IF json[filename] \in {Absent, Corrupt} THEN {TRUE} ELSE Oks

\* with write_flag(flag): entered with okStack at okLabel; when the flag file
\* cannot be created (ok = FALSE) the with statement raises into failStack
Signal(ok, flag, okLabel, okStack, failStack, base) ==
    /\ flags' = WriteFlagEnter(flags, flag, ok)
    /\ Spend(ok)
    /\ IF ok
       THEN /\ pc' = okLabel /\ stack' = okStack /\ result' = "pending"
            /\ scopes' = <<flag>> \o scopes
            /\ raised' = base \cup {flag}
       ELSE /\ Raise(failStack)
            /\ scopes' = scopes
            /\ raised' = base

\* the frame of a call made inside a try/except or a with write_flag block
\* of the caller: the exception ends there and the caller goes on at ret
Caught(stk) == <<[ret |-> Head(stk).ret, exc |-> Head(stk).ret]>> \o Tail(stk)
Call(ret, stk) == <<[ret |-> ret, exc |-> ret]>> \o stk

\* what an exchange read, and whether the engine had answered this request:
\* the request flag, which only the engine deletes, is gone
Observe(flag, filename, data) ==
    [file |-> filename, data |-> data, nodata |-> ~Truthy(data),
     answered |-> flag \notin flags, clicks |-> obs.clicks]

\* the end of the innermost with write_flag block
LeaveScope == flags' = WriteFlagExit(flags, Head(scopes)) /\ scopes' = Tail(scopes)

\* file_manager.write_json(filename, data), its result ignored by every caller
WritePayload(filename, data, basew, basef) ==
    \E how \in IF nfaults > 0 THEN WriteOutcomes ELSE {"ok"} :
        /\ Spend(write_json_result(how))
        /\ json' = write_json_file(json, filename, data, how)
        /\ wrote' = IF write_json_result(how) THEN basew \cup {filename} ELSE basew
        /\ failed' = IF write_json_result(how) THEN basef ELSE basef \cup {filename}

\* the window a handler belongs to
Window(name) ==
    CASE name \in {"refresh_nodes", "add_node", "remove_node"} -> "scene_tree"
      [] name \in {"refresh_scenes", "create_scene", "switch_scene", "delete_scene",
                   "save_scene", "load_scene"} -> "scene_manager"
      [] name \in {"boot", "on_closing"} -> "main"
      [] OTHER -> "object_editor"

\* the main loop starts a handler for a user command; a session's commands
\* are given in one window (and the main window's close button)
Command(name, a) ==
    /\ pc = "idle"
    /\ nops > 0
    /\ "main" \in {Window(op), Window(name)} \/ Window(op) = Window(name)
    /\ nops' = nops - 1
    /\ nclicks' = nclicks
    /\ op' = name
    /\ args' = a
    /\ obs' = NoObs

\* a handler that gives up on a validation before touching any file
RejectAfter(why, ok) ==
    /\ rejected' = why
    /\ Return(<<TopFrame>>)
    /\ wrote' = {} /\ failed' = {} /\ raised' = {}
    /\ Spend(ok)
    /\ UNCHANGED <<flags, json, scopes>>
Reject(why) == RejectAfter(why, TRUE)

(* ------------------------------------------------------------------ *)
(* The engine (another process; its side of the protocol, section 6 of   *)
(* the specification)                                                   *)
(* ------------------------------------------------------------------ *)
EngineAlive == pc \notin {"exited"}

\* request_nodes.flag: the hierarchy is written, the flag deleted
EngineAnswerNodes ==
    /\ EngineAlive
    /\ FileFlags.REQUEST_NODES \in flags
    /\ \E d \in NodeDocs : json' = [json EXCEPT ![FileNames.AVAILABLE_NODES] = d]
    /\ flags' = flags \ {FileFlags.REQUEST_NODES}
    /\ UNCHANGED <<pc, stack, scopes, ticking, nops, nclicks, nfaults, op, args, cg, result,
                   rejected, wrote, failed, raised, obs, ed, st, sm, bt>>

\* request_scenes.flag: the scene list is written, the flag deleted
EngineAnswerScenes ==
    /\ EngineAlive
    /\ FileFlags.REQUEST_SCENES \in flags
    /\ \E d \in SceneDocs : json' = [json EXCEPT ![FileNames.AVAILABLE_SCENES] = d]
    /\ flags' = flags \ {FileFlags.REQUEST_SCENES}
    /\ UNCHANGED <<pc, stack, scopes, ticking, nops, nclicks, nfaults, op, args, cg, result,
                   rejected, wrote, failed, raised, obs, ed, st, sm, bt>>

\* spawn_object.flag: the flag is deleted; a failed spawn leaves spawn_error.json
EngineSpawn ==
    /\ EngineAlive
    /\ FileFlags.SPAWN_OBJECT \in flags
    /\ flags' = flags \ {FileFlags.SPAWN_OBJECT}
    /\ \/ UNCHANGED json
       \/ \E d \in SpawnErrorDocs : json' = [json EXCEPT ![SPAWN_ERROR] = d]
    /\ UNCHANGED <<pc, stack, scopes, ticking, nops, nclicks, nfaults, op, args, cg, result,
                   rejected, wrote, failed, raised, obs, ed, st, sm, bt>>

\* the flags the engine acts on without writing an answer
EngineCommandFlags ==
    {FileFlags.NODE_OPERATION, FileFlags.SAVE_SCENE, FileFlags.LOAD_SCENE,
     FileFlags.SCENE_OPERATION, FileFlags.SWITCH_SCENE, FileFlags.MODE_SWITCH,
     MODE7_TEXTURES_FLAG}
EngineHandle ==
    /\ EngineAlive
    /\ \E f \in EngineCommandFlags \cap flags : flags' = flags \ {f}
    /\ UNCHANGED <<json, pc, stack, scopes, ticking, nops, nclicks, nfaults, op, args, cg, result,
                   rejected, wrote, failed, raised, obs, ed, st, sm, bt>>

\* click_event.json as the engine writes it: a position (x = 3, y = 4.5),
\* an object without "y", an array, a position that is no number
ClickDocs ==
    {[k |-> "dict", x |-> [t |-> "int", v |-> 3], y |-> [t |-> "float", v |-> 45]],
     [k |-> "dict", x |-> [t |-> "int", v |-> 3]],
     [k |-> "list", v |-> <<1>>],
     [k |-> "dict", x |-> [t |-> "str", s |-> "abc"], y |-> [t |-> "int", v |-> 4]]}

\* the engine, in click-to-place, reports a click: click_event.json and
\* click_event.flag
EngineClick ==
    /\ EngineAlive
    /\ FileFlags.PLACEMENT \in flags
    /\ FileFlags.CLICK_EVENT \notin flags
    /\ \E d \in ClickDocs : json' = [json EXCEPT ![FileNames.CLICK_EVENT] = d]
    /\ flags' = flags \cup {FileFlags.CLICK_EVENT}
    /\ nclicks > 0
    /\ nclicks' = nclicks - 1
    /\ UNCHANGED <<pc, stack, scopes, ticking, nops, nfaults, op, args, cg, result,
                   rejected, wrote, failed, raised, obs, ed, st, sm, bt>>

\* the user closes the engine, which deletes running.flag (seen by the
\* editor at its next tick, so the moment within a handler does not matter)
EngineShutdown ==
    /\ pc = "idle"
    /\ FileFlags.RUNNING \in flags
    /\ flags' = flags \ {FileFlags.RUNNING}
    /\ nops > 0
    /\ nops' = nops - 1
    /\ UNCHANGED <<json, pc, stack, scopes, ticking, nclicks, nfaults, op, args, cg, result,
                   rejected, wrote, failed, raised, obs, ed, st, sm, bt>>

(* ------------------------------------------------------------------ *)
(* Python numbers: [t |-> "int", v |-> n], [t |-> "float", v |-> tenths], *)
(* and strings [t |-> "str", s |-> text]                                *)
(* ------------------------------------------------------------------ *)
PyInt(n) == [t |-> "int", v |-> n]
PyFloat(tenths) == [t |-> "float", v |-> tenths]
PyStr(s) == [t |-> "str", s |-> s]
Fails == [ok |-> FALSE]
Gives(val) == [ok |-> TRUE, val |-> val]

\* the number a text denotes, for int() and float()
IntTexts == {"0", "1", "10"}
FloatTexts == {"-0.5", "0.5", "1.5"}
IntOfText(s) == CASE s = "0" -> 0 [] s = "1" -> 1 [] s = "10" -> 10 [] OTHER -> 0
TenthsOfText(s) == CASE s = "-0.5" -> -5 [] s = "0.5" -> 5 [] s = "1.5" -> 15 [] OTHER -> 0

\* int(x): a float is truncated towards zero, a text must be an integer literal
py_int_unconverted(x) == Gives(x)
py_int(x) ==
    CASE x.t = "int" -> Gives(x)
      [] x.t = "float" -> Gives(PyInt(IF x.v >= 0 THEN x.v \div 10 ELSE -((-x.v) \div 10)))
      [] x.t = "str" -> IF x.s \in IntTexts THEN Gives(PyInt(IntOfText(x.s))) ELSE Fails

\* float(x)
py_float_lenient(x) == Gives(PyFloat(5))
py_float(x) ==
    CASE x.t = "int" -> Gives(PyFloat(10 * x.v))
      [] x.t = "float" -> Gives(x)
      [] x.t = "str" -> IF x.s \in IntTexts THEN Gives(PyFloat(10 * IntOfText(x.s)))
                        ELSE IF x.s \in FloatTexts THEN Gives(PyFloat(TenthsOfText(x.s)))
                        ELSE Fails

(* ------------------------------------------------------------------ *)
(* SceneTreeManager                                                     *)
(* ------------------------------------------------------------------ *)
\* refresh_nodes on the document read: no data leaves the widgets alone;
\* otherwise the tree is emptied, and rebuilt and the combo boxes filled
\* unless flattening raises
RefreshViewClears(view, node_data) ==
    IF ~Truthy(node_data) \/ node_data.k # "list" \/ ~WellFormed(node_data.v)
    THEN [tree |-> <<>>, combo |-> <<>>]
    ELSE [tree |-> node_data.v, combo |-> flatten_hierarchy(node_data.v)]
RefreshView(view, node_data) ==
    IF ~Truthy(node_data) THEN view
    ELSE IF node_data.k # "list" \/ ~WellFormed(node_data.v)
         THEN [view EXCEPT !.tree = <<>>]
         ELSE [tree |-> node_data.v, combo |-> flatten_hierarchy(node_data.v)]

\* refresh_nodes, the button: with write_flag(REQUEST_NODES)
RefreshNodes ==
    /\ Command("refresh_nodes", NoArgs)
    /\ \E ok \in Oks :
          Signal(ok, FileFlags.REQUEST_NODES, "rn_read", <<TopFrame>>, <<TopFrame>>, {})
    /\ rejected' = "no" /\ wrote' = {} /\ failed' = {}
    /\ UNCHANGED <<json, ticking, cg, ed, st, sm, bt>>

\* refresh_nodes after time.sleep(0.1): read_json and the widgets
RefreshNodes_ReadRetry ==
    /\ pc = "rn_read"
    /\ LET node_data == read_json(json, FileNames.AVAILABLE_NODES, TRUE) IN
       /\ obs' = Observe(FileFlags.REQUEST_NODES, FileNames.AVAILABLE_NODES, node_data)
       /\ IF Truthy(node_data)
          THEN st' = RefreshView(st, node_data) /\ LeaveScope /\ Return(stack)
          ELSE UNCHANGED <<st, flags, scopes, pc, stack, result>>
    /\ UNCHANGED <<json, ticking, nops, nclicks, nfaults, op, args, cg, rejected, wrote,
                   failed, raised, ed, sm, bt>>
RefreshNodes_Read ==
    /\ pc = "rn_read"
    /\ \E ok \in ReadOks(FileNames.AVAILABLE_NODES) :
          LET node_data == read_json(json, FileNames.AVAILABLE_NODES, ok) IN
          /\ Spend(ok)
          /\ obs' = Observe(FileFlags.REQUEST_NODES, FileNames.AVAILABLE_NODES, node_data)
          /\ st' = RefreshView(st, node_data)
    /\ LeaveScope
    /\ Return(stack)
    /\ UNCHANGED <<json, ticking, nops, nclicks, op, args, cg, rejected, wrote, failed,
                   raised, ed, sm, bt>>

\* a handler calls refresh_nodes inside its with block, after its sleep
CallRefreshNodes ==
    /\ pc = "call_rn"
    /\ \E ok \in Oks :
          Signal(ok, FileFlags.REQUEST_NODES, "rn_read",
                 Call("op_exit", stack), Call("op_exit", stack), raised)
    /\ UNCHANGED <<json, ticking, nops, nclicks, op, args, cg, rejected, wrote, failed,
                   obs, ed, st, sm, bt>>

\* the end of a handler's with block and of the handler
OpExit ==
    /\ pc = "op_exit"
    /\ LeaveScope
    /\ Return(stack)
    /\ UNCHANGED <<json, ticking, nops, nclicks, nfaults, op, args, cg, rejected, wrote, failed,
                   raised, obs, ed, st, sm, bt>>

\* add_node: the validations, then with write_flag(REQUEST_NODES)
AddNode ==
    \E raw \in NodeNames, parent \in ParentChoices :
        LET name == strip(raw) IN
        /\ Command("add_node", [name |-> name, parent |-> parent])
        /\ IF name = "" THEN Reject("empty_name")
           ELSE IF parent = "" THEN Reject("no_parent")
           ELSE /\ \E ok \in Oks :
                      Signal(ok, FileFlags.REQUEST_NODES, "an_read",
                             <<TopFrame>>, <<TopFrame>>, {})
                /\ rejected' = "no" /\ wrote' = {} /\ failed' = {}
                /\ UNCHANGED json
        /\ UNCHANGED <<ticking, cg, ed, st, sm, bt>>

\* add_node after the sleep: the name is looked up in the hierarchy read back
AddNode_Check ==
    /\ pc = "an_read"
    /\ \E ok \in ReadOks(FileNames.AVAILABLE_NODES) :
          LET node_data == read_json(json, FileNames.AVAILABLE_NODES, ok) IN
          /\ Spend(ok)
          /\ obs' = Observe(FileFlags.REQUEST_NODES, FileNames.AVAILABLE_NODES, node_data)
          /\ IF NameCheck(node_data, args.name) = "dup"
             THEN rejected' = "duplicate" /\ Return(stack)
             ELSE rejected' = rejected /\ Step("an_write")
    /\ LeaveScope
    /\ UNCHANGED <<json, ticking, nops, nclicks, op, args, cg, wrote, failed, raised,
                   ed, st, sm, bt>>

\* add_node: write_json(NODE_OPERATION, data)
AddNode_Write ==
    /\ pc = "an_write"
    /\ WritePayload(FileNames.NODE_OPERATION,
                    [k |-> "dict", action |-> "add_node", name |-> args.name,
                     parent |-> args.parent], wrote, failed)
    /\ Step("an_flag")
    /\ UNCHANGED <<flags, scopes, ticking, nops, nclicks, op, args, cg, rejected, raised,
                   obs, ed, st, sm, bt>>

\* add_node: with write_flag(NODE_OPERATION)
AddNode_Flag ==
    /\ pc = "an_flag"
    /\ \E ok \in Oks :
          Signal(ok, FileFlags.NODE_OPERATION, "call_rn", stack, stack, raised)
    /\ UNCHANGED <<json, ticking, nops, nclicks, op, args, cg, rejected, wrote, failed,
                   obs, ed, st, sm, bt>>

\* remove_node: the validations and write_json(NODE_OPERATION, data)
RemoveRootCheck(node) == node = "Root"
RemoveNode ==
    \E node \in RemoveChoices :
        /\ Command("remove_node", [node |-> node])
        /\ IF node = "" THEN Reject("no_selection")
           ELSE IF RemoveRootCheck(node) THEN Reject("root")
           ELSE /\ WritePayload(FileNames.NODE_OPERATION,
                                [k |-> "dict", action |-> "remove_node",
                                 name |-> node, reparent |-> TRUE], {}, {})
                /\ pc' = "rm_flag" /\ stack' = <<TopFrame>> /\ result' = "pending"
                /\ rejected' = "no" /\ raised' = {}
                /\ UNCHANGED <<flags, scopes>>
        /\ UNCHANGED <<ticking, cg, ed, st, sm, bt>>

\* remove_node: with write_flag(NODE_OPERATION)
RemoveNode_Flag ==
    /\ pc = "rm_flag"
    /\ \E ok \in Oks :
          Signal(ok, FileFlags.NODE_OPERATION, "call_rn", stack, stack, raised)
    /\ UNCHANGED <<json, ticking, nops, nclicks, op, args, cg, rejected, wrote, failed,
                   obs, ed, st, sm, bt>>

(* ------------------------------------------------------------------ *)
(* ObjectEditor                                                         *)
(* ------------------------------------------------------------------ *)
ObjectNames == {"", "a"}
ParentAnswers == {"", "a"}
CoordTexts == {"abc", "-0.5", "0.5", "1", "1.5"}
CoordTextsY == {"0.5", "1.5"}

\* the form as a handler finds it: since the last handler the user may have
\* typed into the name entry and run select_texture (Form), or
\* select_ground_texture and select_sky_texture (Mode7Form); none of these
\* touches a file
Form(e) ==
    {[e EXCEPT !.name_entry = n, !.texture_path = t] :
        n \in ObjectNames, t \in {e.texture_path, "t.bmp"}}
Mode7Form(e) == {e, [e EXCEPT !.textures = TRUE]}

\* toggle_show_colliders: the check box has flipped; the flag is created or
\* removed inside try/except
ToggleShowColliders ==
    /\ Command("toggle_show_colliders", NoArgs)
    /\ LET is_checked == ~ed.show_colliders IN
       IF is_checked
       THEN \E ok \in Oks :
               /\ Spend(ok)
               /\ flags' = WriteFlagExit(WriteFlagEnter(flags, FileFlags.SHOW_COLLIDERS, ok),
                                         FileFlags.SHOW_COLLIDERS)
               /\ raised' = IF ok THEN {FileFlags.SHOW_COLLIDERS} ELSE {}
               /\ ed' = [ed EXCEPT !.show_colliders = TRUE,
                                   !.status = IF ok THEN @ ELSE "error"]
       ELSE /\ flags' = flags \ {FileFlags.SHOW_COLLIDERS}
            /\ raised' = {} /\ nfaults' = nfaults
            /\ ed' = [ed EXCEPT !.show_colliders = FALSE]
    /\ Return(<<TopFrame>>)
    /\ rejected' = "no" /\ wrote' = {} /\ failed' = {}
    /\ UNCHANGED <<json, scopes, ticking, cg, st, sm, bt>>

\* toggle_placement_mode
TogglePlacementMode ==
    /\ Command("toggle_placement_mode", NoArgs)
    /\ \E f \in Form(ed) :
       IF f.texture_path = ""
       THEN Reject("no_texture") /\ ed' = [f EXCEPT !.status = "need_texture"]
       ELSE IF f.name_entry = ""
       THEN Reject("no_name") /\ ed' = [f EXCEPT !.status = "need_name"]
       ELSE IF f.parent_node = ""
       THEN Reject("no_parent") /\ ed' = [f EXCEPT !.status = "need_parent"]
       ELSE IF f.is_mode7
       THEN Reject("mode7") /\ ed' = f
       ELSE /\ rejected' = "no" /\ wrote' = {} /\ failed' = {}
            /\ UNCHANGED <<json>>
            /\ IF ~f.placement_mode
               THEN \E ok \in Oks :
                       /\ Spend(ok)
                       /\ flags' = WriteFlagExit(
                                      WriteFlagEnter(flags, FileFlags.PLACEMENT, ok),
                                      FileFlags.PLACEMENT)
                       /\ raised' = IF ok THEN {FileFlags.PLACEMENT} ELSE {}
                       /\ ed' = [f EXCEPT !.placement_mode = TRUE,
                                           !.status = IF ok THEN "click_to_place" ELSE @]
                       /\ IF ok THEN Return(<<TopFrame>>) ELSE Raise(<<TopFrame>>)
                       /\ scopes' = scopes
               ELSE /\ flags' = flags \ {FileFlags.PLACEMENT}
                    /\ raised' = {} /\ nfaults' = nfaults
                    /\ ed' = [f EXCEPT !.placement_mode = FALSE, !.status = ""]
                    /\ Return(<<TopFrame>>)
                    /\ scopes' = scopes
    /\ UNCHANGED <<ticking, cg, st, sm, bt>>

\* select_parent_node: with write_flag(REQUEST_NODES, "request") inside try
SelectParentNode ==
    /\ Command("select_parent_node", NoArgs)
    /\ \E ok \in Oks :
          /\ Signal(ok, FileFlags.REQUEST_NODES, "sp_read",
                    <<TopFrame>>, Caught(<<TopFrame>>), {})
          /\ ed' = IF ok THEN ed ELSE [ed EXCEPT !.status = "error"]
    /\ rejected' = "no" /\ wrote' = {} /\ failed' = {}
    /\ UNCHANGED <<json, ticking, cg, st, sm, bt>>

\* select_parent_node after the sleep: no data returns at once; otherwise the
\* dialog asks for a parent (answer "" is Cancel or an empty line)
SelectParentNode_Read ==
    /\ pc = "sp_read"
    /\ \E ok \in ReadOks(FileNames.AVAILABLE_NODES) :
          LET node_data == read_json(json, FileNames.AVAILABLE_NODES, ok) IN
          /\ Spend(ok)
          /\ obs' = Observe(FileFlags.REQUEST_NODES, FileNames.AVAILABLE_NODES, node_data)
          /\ IF ~Truthy(node_data)
             THEN Return(stack) /\ ed' = ed
             ELSE /\ Step("sp_remove")
                  /\ IF node_data.k # "list" \/ ~WellFormed(node_data.v)
                     THEN ed' = ed
                     ELSE \E parent \in ParentAnswers :
                             ed' = IF parent = "" THEN ed
                                   ELSE [ed EXCEPT !.parent_node = parent,
                                                   !.status = "parent_set"]
    /\ LeaveScope
    /\ UNCHANGED <<json, ticking, nops, nclicks, op, args, cg, rejected, wrote, failed,
                   raised, st, sm, bt>>

\* select_parent_node after the with block: available_nodes.json is removed
SelectParentNode_Remove ==
    /\ pc = "sp_remove"
    /\ json' = [json EXCEPT ![FileNames.AVAILABLE_NODES] = Absent]
    /\ Return(stack)
    /\ UNCHANGED <<flags, scopes, ticking, nops, nclicks, nfaults, op, args, cg, rejected, wrote,
                   failed, raised, obs, ed, st, sm, bt>>

\* create_game_object(x, y, is_mode7) is entered: with
\* write_flag(REQUEST_NODES), inside the try that spans the function
CreateGameObject(f, x, y, is_mode7, stk, base) ==
    \E ok \in Oks :
        /\ cg' = [x |-> x, y |-> y, is_mode7 |-> is_mode7]
        /\ Signal(ok, FileFlags.REQUEST_NODES, "cg_read", stk, Caught(stk), base)
        /\ ed' = IF ok THEN f ELSE [f EXCEPT !.status = "error"]

\* a create_game_object that reads the hierarchy and does not look the name up
CreateGameObject_CheckSkipped ==
    /\ pc = "cg_read"
    /\ \E ok \in ReadOks(FileNames.AVAILABLE_NODES) :
          LET node_data == read_json(json, FileNames.AVAILABLE_NODES, ok) IN
          /\ Spend(ok)
          /\ obs' = Observe(FileFlags.REQUEST_NODES, FileNames.AVAILABLE_NODES, node_data)
          /\ rejected' = rejected /\ Step("cg_write")
    /\ LeaveScope
    /\ UNCHANGED <<json, ticking, nops, nclicks, op, args, cg, wrote, failed, raised,
                   ed, st, sm, bt>>

\* create_game_object after the sleep: the name is looked up in the hierarchy
CreateGameObject_Check ==
    /\ pc = "cg_read"
    /\ \E ok \in ReadOks(FileNames.AVAILABLE_NODES) :
          LET node_data == read_json(json, FileNames.AVAILABLE_NODES, ok) IN
          /\ Spend(ok)
          /\ obs' = Observe(FileFlags.REQUEST_NODES, FileNames.AVAILABLE_NODES, node_data)
          /\ IF NameCheck(node_data, ed.name_entry) = "dup"
             THEN rejected' = "duplicate" /\ Return(stack)
             ELSE rejected' = rejected /\ Step("cg_write")
    /\ LeaveScope
    /\ UNCHANGED <<json, ticking, nops, nclicks, op, args, cg, wrote, failed, raised,
                   ed, st, sm, bt>>

\* the position of the payload: float() in Mode7, int() otherwise
Position(c) ==
    LET cx == IF c.is_mode7 THEN py_float(c.x) ELSE py_int(c.x)
        cy == IF c.is_mode7 THEN py_float(c.y) ELSE py_int(c.y) IN
    IF cx.ok /\ cy.ok THEN Gives([x |-> cx.val, y |-> cy.val]) ELSE Fails

ObjectData(pos, c) ==
    [k |-> "dict", type |-> "custom", name |-> ed.name_entry, position |-> pos,
     texture_path |-> ed.texture_path, parent_node |-> ed.parent_node,
     is_mode7 |-> c.is_mode7]

\* create_game_object: the position is converted (a failure is caught and
\* shown) and write_json(TEMP_OBJECT, object_data)
CreateGameObject_Write ==
    /\ pc = "cg_write"
    /\ LET pos == Position(cg) IN
       IF pos.ok
       THEN /\ WritePayload(FileNames.TEMP_OBJECT, ObjectData(pos.val, cg), wrote, failed)
            /\ Step("cg_flag")
            /\ ed' = ed /\ rejected' = rejected
       ELSE /\ Return(stack)
            /\ ed' = [ed EXCEPT !.status = "error"]
            /\ rejected' = "bad_position"
            /\ UNCHANGED <<json, wrote, failed, nfaults>>
    /\ UNCHANGED <<flags, scopes, ticking, nops, nclicks, op, args, cg, raised, obs, st, sm, bt>>

\* create_game_object: with write_flag(SPAWN_OBJECT)
CreateGameObject_Flag ==
    /\ pc = "cg_flag"
    /\ \E ok \in Oks :
          /\ Signal(ok, FileFlags.SPAWN_OBJECT, "cg_check", stack, Caught(stack), raised)
          /\ ed' = IF ok THEN ed ELSE [ed EXCEPT !.status = "error"]
    /\ UNCHANGED <<json, ticking, nops, nclicks, op, args, cg, rejected, wrote, failed,
                   obs, st, sm, bt>>

\* create_game_object after the sleep: spawn_error.json is shown and removed
\* when it holds "error"; otherwise the object is reported as created
CreateGameObject_Result ==
    /\ pc = "cg_check"
    /\ \E ok \in ReadOks(SPAWN_ERROR) :
          LET error_data == read_json(json, SPAWN_ERROR, ok) IN
          /\ Spend(ok)
          /\ IF json[SPAWN_ERROR] # Absent /\ Truthy(error_data)
                /\ HasKey(error_data, "error")
             THEN /\ json' = [json EXCEPT ![SPAWN_ERROR] = Absent]
                  /\ ed' = ed
             ELSE /\ json' = json
                  /\ ed' = [ed EXCEPT !.status = "created"]
    /\ LeaveScope
    /\ Return(stack)
    /\ UNCHANGED <<ticking, nops, nclicks, op, args, cg, rejected, wrote, failed, raised,
                   obs, st, sm, bt>>

\* the finally clause of update_loop
ClickCleanupKeepsFlag ==
    /\ flags' = flags
    /\ json' = [json EXCEPT ![FileNames.CLICK_EVENT] = Absent]
ClickCleanupKeepsJson ==
    /\ flags' = flags \ {FileFlags.CLICK_EVENT}
    /\ json' = json
ClickCleanup ==
    /\ flags' = flags \ {FileFlags.CLICK_EVENT}
    /\ json' = [json EXCEPT ![FileNames.CLICK_EVENT] = Absent]

\* update_loop, one run of it, called with the frames stk
UpdateLoop(f, stk, base) ==
    IF FileFlags.RUNNING \notin flags
    THEN /\ pc' = "exited" /\ stack' = <<>> /\ result' = "returned"
         /\ ticking' = FALSE /\ raised' = base
         /\ UNCHANGED <<flags, json, scopes, cg, nfaults>> /\ ed' = f
    ELSE IF FileFlags.CLICK_EVENT \notin flags
    THEN /\ ticking' = TRUE /\ Return(stk) /\ raised' = base
         /\ UNCHANGED <<flags, json, scopes, cg, nfaults>> /\ ed' = f
    ELSE \E okr \in ReadOks(FileNames.CLICK_EVENT) :
         LET click_data == read_json(json, FileNames.CLICK_EVENT, okr) IN
         IF Truthy(click_data) /\ f.placement_mode
         THEN IF HasKey(click_data, "x") /\ HasKey(click_data, "y")
              THEN /\ CreateGameObject(f, click_data.x, click_data.y, FALSE,
                                       Call("ul_finally", stk), base)
                   /\ ticking' = FALSE
                   /\ json' = json
              ELSE /\ ClickCleanup
                   /\ Raise(stk)
                   /\ ticking' = FALSE /\ raised' = base
                   /\ Spend(okr)
                   /\ UNCHANGED <<scopes, cg>> /\ ed' = f
         ELSE /\ ClickCleanup
              /\ ticking' = TRUE /\ Return(stk) /\ raised' = base
              /\ Spend(okr)
              /\ UNCHANGED <<scopes, cg>> /\ ed' = f

\* the timer runs update_loop.  (A run that finds running.flag and no click
\* event only schedules the next one and changes nothing.)
Tick ==
    /\ pc = "idle"
    /\ ticking
    /\ FileFlags.RUNNING \notin flags \/ FileFlags.CLICK_EVENT \in flags
    /\ op' = "update_loop" /\ args' = NoArgs
    /\ obs' = [NoObs EXCEPT !.clicks = IF {FileFlags.RUNNING, FileFlags.CLICK_EVENT}
                                            \subseteq flags THEN 1 ELSE 0]
    /\ rejected' = "no" /\ wrote' = {} /\ failed' = {}
    /\ \E f \in IF FileFlags.RUNNING \in flags /\ ed.placement_mode
                THEN Form(ed) ELSE {ed} :
          UpdateLoop(f, <<TopFrame>>, {})
    /\ UNCHANGED <<nops, nclicks, st, sm, bt>>

\* a finally clause that looks into click_event.json once more
UpdateLoop_FinallyRereads ==
    /\ pc = "ul_finally"
    /\ obs' = [obs EXCEPT !.clicks = @ + 1]
    /\ ClickCleanup
    /\ ticking' = TRUE
    /\ Return(stack)
    /\ UNCHANGED <<scopes, nops, nclicks, nfaults, op, args, cg, rejected, wrote, failed, raised,
                   ed, st, sm, bt>>

\* update_loop after create_game_object returned: finally, and after(16, ...)
UpdateLoop_Finally ==
    /\ pc = "ul_finally"
    /\ ClickCleanup
    /\ ticking' = TRUE
    /\ Return(stack)
    /\ UNCHANGED <<scopes, nops, nclicks, nfaults, op, args, cg, rejected, wrote, failed, raised,
                   obs, ed, st, sm, bt>>

\* toggle_mode: the mode flips and write_json(MODE_SWITCH, {"mode7": ...})
ToggleMode ==
    /\ Command("toggle_mode", NoArgs)
    /\ ed' = [ed EXCEPT !.is_mode7 = ~ed.is_mode7]
    /\ WritePayload(FileNames.MODE_SWITCH, [k |-> "dict", mode7 |-> ~ed.is_mode7], {}, {})
    /\ pc' = "tm_flag" /\ stack' = <<TopFrame>> /\ result' = "pending"
    /\ rejected' = "no" /\ raised' = {}
    /\ UNCHANGED <<flags, scopes, ticking, cg, st, sm, bt>>

\* toggle_mode: with write_flag(MODE_SWITCH): set_status(...)
ToggleMode_Flag ==
    /\ pc = "tm_flag"
    /\ \E ok \in Oks :
          /\ Spend(ok)
          /\ flags' = WriteFlagExit(WriteFlagEnter(flags, FileFlags.MODE_SWITCH, ok),
                                    FileFlags.MODE_SWITCH)
          /\ raised' = IF ok THEN raised \cup {FileFlags.MODE_SWITCH} ELSE raised
          /\ ed' = IF ok THEN [ed EXCEPT !.status = "switched"] ELSE ed
          /\ IF ok THEN Return(stack) ELSE Raise(stack)
    /\ UNCHANGED <<json, scopes, ticking, nops, nclicks, op, args, cg, rejected, wrote,
                   failed, obs, st, sm, bt>>

\* place_mode7_object: the validations, float() of the two entries, the
\* range check, then create_game_object(x, y, is_mode7=True)
InUnitRangeUpperOnly(x) == x.v <= 10
InUnitRange(x) == 0 <= x.v /\ x.v <= 10
PlaceMode7Object ==
    \E f \in Form(ed), wx \in CoordTexts, wy \in CoordTextsY :
        LET x == py_float(PyStr(wx))
            y == py_float(PyStr(wy)) IN
        /\ Command("place_mode7_object", [x |-> wx, y |-> wy])
        /\ IF f.texture_path = ""
           THEN Reject("no_texture") /\ ed' = [f EXCEPT !.status = "need_texture"]
                /\ cg' = cg
           ELSE IF f.name_entry = ""
           THEN Reject("no_name") /\ ed' = [f EXCEPT !.status = "need_name"]
                /\ cg' = cg
           ELSE IF f.parent_node = ""
           THEN Reject("no_parent") /\ ed' = [f EXCEPT !.status = "need_parent"]
                /\ cg' = cg
           ELSE IF ~x.ok \/ ~y.ok
           THEN Reject("bad_number") /\ ed' = [f EXCEPT !.status = "invalid"]
                /\ cg' = cg
           ELSE IF ~(InUnitRange(x.val) /\ InUnitRange(y.val))
           THEN Reject("range") /\ ed' = [f EXCEPT !.status = "range"]
                /\ cg' = cg
           ELSE /\ CreateGameObject(f, x.val, y.val, TRUE,
                                    Call("pm_status", <<TopFrame>>), {})
                /\ rejected' = "no" /\ wrote' = {} /\ failed' = {}
                /\ json' = json
        /\ UNCHANGED <<ticking, st, sm, bt>>

\* place_mode7_object after create_game_object returned
PlaceMode7Object_Status ==
    /\ pc = "pm_status"
    /\ ed' = [ed EXCEPT !.status = "created_mode7"]
    /\ Return(stack)
    /\ UNCHANGED <<flags, json, scopes, ticking, nops, nclicks, nfaults, op, args, cg, rejected,
                   wrote, failed, raised, obs, st, sm, bt>>

\* apply_mode7_textures: write_json("mode7_textures.json", data)
ApplyMode7Textures ==
    /\ Command("apply_mode7_textures", NoArgs)
    /\ \E f \in Mode7Form(ed) :
       IF ~f.textures
       THEN Reject("no_textures") /\ ed' = [f EXCEPT !.status = "need_textures"]
       ELSE /\ WritePayload(MODE7_TEXTURES,
                            [k |-> "dict", ground_texture |-> "g.bmp",
                             sky_texture |-> "s.bmp"], {}, {})
            /\ pc' = "am_flag" /\ stack' = <<TopFrame>> /\ result' = "pending"
            /\ rejected' = "no" /\ raised' = {}
            /\ ed' = f
            /\ UNCHANGED <<flags, scopes>>
    /\ UNCHANGED <<ticking, cg, st, sm, bt>>

\* apply_mode7_textures: with write_flag("mode7_textures.flag"): set_status
ApplyMode7Textures_Flag ==
    /\ pc = "am_flag"
    /\ \E ok \in Oks :
          /\ Spend(ok)
          /\ flags' = WriteFlagExit(WriteFlagEnter(flags, MODE7_TEXTURES_FLAG, ok),
                                    MODE7_TEXTURES_FLAG)
          /\ raised' = IF ok THEN raised \cup {MODE7_TEXTURES_FLAG} ELSE raised
          /\ ed' = IF ok THEN [ed EXCEPT !.status = "textures"] ELSE ed
          /\ IF ok THEN Return(stack) ELSE Raise(stack)
    /\ UNCHANGED <<json, scopes, ticking, nops, nclicks, op, args, cg, rejected, wrote,
                   failed, obs, st, sm, bt>>

(* ------------------------------------------------------------------ *)
(* SceneManager                                                         *)
(* ------------------------------------------------------------------ *)
SceneNames == {"", " ", "s"}
SavePaths == {"", "p.json"}

\* refresh_scenes on the document read: no data leaves the list alone;
\* otherwise the list is emptied and filled from scenes["scenes"] (a
\* document without it raises, inside the with block)
RefreshList(view, scenes) ==
    IF ~Truthy(scenes) THEN view
    ELSE IF HasKey(scenes, "scenes") THEN [view EXCEPT !.scenes = scenes.scenes]
    ELSE [view EXCEPT !.scenes = <<>>]

\* refresh_scenes, the button: with write_flag(REQUEST_SCENES)
RefreshScenes ==
    /\ Command("refresh_scenes", NoArgs)
    /\ \E ok \in Oks :
          Signal(ok, FileFlags.REQUEST_SCENES, "rs_read", <<TopFrame>>, <<TopFrame>>, {})
    /\ rejected' = "no" /\ wrote' = {} /\ failed' = {}
    /\ UNCHANGED <<json, ticking, cg, ed, st, sm, bt>>

\* refresh_scenes after the sleep
RefreshScenes_Read ==
    /\ pc = "rs_read"
    /\ \E ok \in ReadOks(FileNames.AVAILABLE_SCENES) :
          LET scenes == read_json(json, FileNames.AVAILABLE_SCENES, ok) IN
          /\ Spend(ok)
          /\ obs' = Observe(FileFlags.REQUEST_SCENES, FileNames.AVAILABLE_SCENES, scenes)
          /\ sm' = RefreshList(sm, scenes)
    /\ LeaveScope
    /\ Return(stack)
    /\ UNCHANGED <<json, ticking, nops, nclicks, op, args, cg, rejected, wrote, failed,
                   raised, ed, st, bt>>

\* a handler calls refresh_scenes inside its with block, after its sleep
CallRefreshScenes ==
    /\ pc = "call_rs"
    /\ \E ok \in Oks :
          Signal(ok, FileFlags.REQUEST_SCENES, "rs_read",
                 Call("op_exit", stack), Call("op_exit", stack), raised)
    /\ UNCHANGED <<json, ticking, nops, nclicks, op, args, cg, rejected, wrote, failed,
                   obs, ed, st, sm, bt>>

\* a handler's with write_flag(flag) after its write_json; it goes on at next
\* after the sleep
OperationFlag(at, flag, next) ==
    /\ pc = at
    /\ \E ok \in Oks : Signal(ok, flag, next, stack, stack, raised)
    /\ UNCHANGED <<json, ticking, nops, nclicks, op, args, cg, rejected, wrote, failed,
                   obs, ed, st, sm, bt>>

\* a handler's write_json right after its validations
FirstPayload(filename, data, next) ==
    /\ WritePayload(filename, data, {}, {})
    /\ pc' = next /\ stack' = <<TopFrame>> /\ result' = "pending"
    /\ rejected' = "no" /\ raised' = {}
    /\ UNCHANGED <<flags, scopes>>

\* create_scene
CreateScene ==
    \E raw \in SceneNames :
        LET name == strip(raw) IN
        /\ Command("create_scene", [name |-> name])
        /\ IF name = "" THEN Reject("empty_name")
           ELSE FirstPayload(FileNames.SCENE_OPERATION,
                             [k |-> "dict", action |-> "create", name |-> name],
                             "cs_flag")
        /\ UNCHANGED <<ticking, cg, ed, st, sm, bt>>

CreateScene_Flag == OperationFlag("cs_flag", FileFlags.SCENE_OPERATION, "call_rs")

\* switch_scene; selection 0 is no selection
SwitchScene ==
    \E selection \in 0..Len(sm.scenes) :
        /\ Command("switch_scene", [selection |-> selection])
        /\ IF selection = 0 THEN Reject("no_selection")
           ELSE FirstPayload(FileNames.SWITCH_SCENE,
                             [k |-> "dict", scene |-> sm.scenes[selection]],
                             "sw_flag")
        /\ UNCHANGED <<ticking, cg, ed, st, sm, bt>>

\* switch_scene: the window has no scene_tree_manager, so nothing follows the
\* sleep but the end of the with block
SwitchScene_Flag == OperationFlag("sw_flag", FileFlags.SWITCH_SCENE, "op_exit")

\* delete_scene; confirm is the answer to askyesno
IsMainCapital(scene_name) == scene_name = "Main"
IsMain(scene_name) == scene_name = "main"
DeleteScene ==
    \E selection \in 0..Len(sm.scenes), confirm \in BOOLEAN :
        /\ Command("delete_scene",
                   [selection |-> selection, confirm |-> confirm,
                    scene |-> IF selection = 0 THEN "" ELSE sm.scenes[selection]])
        /\ IF selection = 0 THEN Reject("no_selection")
           ELSE IF IsMain(sm.scenes[selection]) THEN Reject("main")
           ELSE IF ~confirm THEN Reject("declined")
           ELSE FirstPayload(FileNames.SCENE_OPERATION,
                             [k |-> "dict", action |-> "delete",
                              name |-> sm.scenes[selection]],
                             "ds_flag")
        /\ UNCHANGED <<ticking, cg, ed, st, sm, bt>>

DeleteScene_Flag == OperationFlag("ds_flag", FileFlags.SCENE_OPERATION, "call_rs")

\* save_scene: the active scene is read from active_scene.json, the dialog
\* gives a file name ("" is Cancel), write_json(LOAD_SCENE, {"path": ...})
SaveScene ==
    \E filename \in SavePaths, doc \in ActiveSceneDocs :
    \E okr \in IF doc = Absent THEN {TRUE} ELSE Oks :
        LET scene_data == IF doc = Absent THEN None
                          ELSE read_json([f \in {ACTIVE_SCENE} |-> doc], ACTIVE_SCENE, okr)
            active == Truthy(scene_data) /\ HasKey(scene_data, "activeName") IN
        /\ Command("save_scene", [filename |-> filename])
        /\ IF ~active THEN RejectAfter("no_active_scene", okr)
           ELSE IF filename = "" THEN Reject("cancelled")
           ELSE FirstPayload(FileNames.LOAD_SCENE,
                             [k |-> "dict", path |-> filename], "sv_flag")
        /\ UNCHANGED <<ticking, cg, ed, st, sm, bt>>

\* save_scene: with write_flag(SAVE_SCENE, "save"), inside the try
SaveScene_Flag ==
    /\ pc = "sv_flag"
    /\ \E ok \in Oks :
          Signal(ok, FileFlags.SAVE_SCENE, "op_exit", stack, Caught(stack), raised)
    /\ UNCHANGED <<json, ticking, nops, nclicks, op, args, cg, rejected, wrote, failed,
                   obs, ed, st, sm, bt>>

\* load_scene
LoadScene ==
    \E filename \in SavePaths :
        /\ Command("load_scene", [filename |-> filename])
        /\ IF filename = "" THEN Reject("cancelled")
           ELSE FirstPayload(FileNames.LOAD_SCENE,
                             [k |-> "dict", path |-> filename], "ld_flag")
        /\ UNCHANGED <<ticking, cg, ed, st, sm, bt>>

LoadScene_Flag == OperationFlag("ld_flag", FileFlags.LOAD_SCENE, "call_rs")

(* ------------------------------------------------------------------ *)
(* BitmapTextWindow                                                     *)
(* ------------------------------------------------------------------ *)
BitmapNames == {"", "t"}
BitmapTexts == {"10", "abc"}

\* select_parent_node: with write_flag(REQUEST_NODES, "request") inside try
BitmapSelectParent ==
    /\ Command("bitmap_select_parent_node", NoArgs)
    /\ \E ok \in Oks :
          /\ Signal(ok, FileFlags.REQUEST_NODES, "bs_read",
                    <<TopFrame>>, Caught(<<TopFrame>>), {})
          /\ bt' = IF ok THEN bt ELSE [bt EXCEPT !.status = "error"]
    /\ rejected' = "no" /\ wrote' = {} /\ failed' = {}
    /\ UNCHANGED <<json, ticking, cg, ed, st, sm>>

BitmapSelectParent_Read ==
    /\ pc = "bs_read"
    /\ \E ok \in ReadOks(FileNames.AVAILABLE_NODES) :
          LET node_data == read_json(json, FileNames.AVAILABLE_NODES, ok) IN
          /\ Spend(ok)
          /\ obs' = Observe(FileFlags.REQUEST_NODES, FileNames.AVAILABLE_NODES, node_data)
          /\ IF ~Truthy(node_data) \/ node_data.k # "list" \/ ~WellFormed(node_data.v)
             THEN bt' = bt
             ELSE \E parent \in ParentAnswers :
                     bt' = IF parent = "" THEN bt
                           ELSE [parent_node |-> parent, status |-> "parent_set"]
    /\ LeaveScope
    /\ Return(stack)
    /\ UNCHANGED <<json, ticking, nops, nclicks, op, args, cg, rejected, wrote, failed,
                   raised, ed, st, sm>>

\* create_bitmap_text: the validations, int() of the three entries (the score
\* entry is left at its "0"), write_json(TEMP_OBJECT, object_data)
CreateBitmapText ==
    \E name \in BitmapNames, tx \in BitmapTexts, ty \in BitmapTexts :
        LET x == py_int(PyStr(tx))
            y == py_int(PyStr(ty)) IN
        /\ Command("create_bitmap_text", [name |-> name, x |-> tx, y |-> ty])
        /\ IF bt.parent_node = ""
           THEN Reject("no_parent") /\ bt' = [bt EXCEPT !.status = "need_parent"]
           ELSE IF name = ""
           THEN Reject("empty_name") /\ bt' = [bt EXCEPT !.status = "need_name"]
           ELSE IF ~x.ok \/ ~y.ok
           THEN Reject("bad_number") /\ bt' = [bt EXCEPT !.status = "error"]
           ELSE /\ FirstPayload(FileNames.TEMP_OBJECT,
                                [k |-> "dict", type |-> "bitmap_text", name |-> name,
                                 position |-> [x |-> x.val, y |-> y.val],
                                 parent_node |-> bt.parent_node],
                                "cb_flag")
                /\ bt' = bt
        /\ UNCHANGED <<ticking, cg, ed, st, sm>>

\* create_bitmap_text: with write_flag(SPAWN_OBJECT), inside the try
CreateBitmapText_Flag ==
    /\ pc = "cb_flag"
    /\ \E ok \in Oks :
          /\ Signal(ok, FileFlags.SPAWN_OBJECT, "cb_done", stack, Caught(stack), raised)
          /\ bt' = IF ok THEN bt ELSE [bt EXCEPT !.status = "error"]
    /\ UNCHANGED <<json, ticking, nops, nclicks, op, args, cg, rejected, wrote, failed,
                   obs, ed, st, sm>>

\* create_bitmap_text after the sleep
CreateBitmapText_Done ==
    /\ pc = "cb_done"
    /\ bt' = [bt EXCEPT !.status = "created"]
    /\ LeaveScope
    /\ Return(stack)
    /\ UNCHANGED <<json, ticking, nops, nclicks, nfaults, op, args, cg, rejected, wrote, failed,
                   raised, obs, ed, st, sm>>

(* ------------------------------------------------------------------ *)
(* MainApplication                                                      *)
(* ------------------------------------------------------------------ *)
\* MainApplication.__init__: SceneTreeManager.__init__ calls refresh_nodes
Boot_SceneTree ==
    /\ pc = "boot0"
    /\ \E ok \in Oks :
          Signal(ok, FileFlags.REQUEST_NODES, "rn_read",
                 <<[ret |-> "boot1", exc |-> "fatal"]>>,
                 <<[ret |-> "boot1", exc |-> "fatal"]>>, raised)
    /\ UNCHANGED <<json, ticking, nops, nclicks, op, args, cg, rejected, wrote, failed,
                   obs, ed, st, sm, bt>>

\* ObjectEditor.__init__: with write_flag(RUNNING, "running"): update_loop()
Boot_ObjectEditor ==
    /\ pc = "boot1"
    /\ \E ok \in Oks :
          Signal(ok, FileFlags.RUNNING, "ul_first",
                 <<[ret |-> "boot2", exc |-> "boot2"]>>,
                 <<[ret |-> "boot2", exc |-> "fatal"]>>, raised)
    /\ UNCHANGED <<json, ticking, nops, nclicks, op, args, cg, rejected, wrote, failed,
                   obs, ed, st, sm, bt>>

\* the first run of update_loop, inside that with block
Boot_UpdateLoop ==
    /\ pc = "ul_first"
    /\ UpdateLoop(ed, stack, raised)
    /\ UNCHANGED <<nops, nclicks, op, args, rejected, wrote, failed, obs, st, sm, bt>>

\* a with block whose end removes running.flag
Boot_RunningScopeRemoves ==
    /\ pc = "boot2"
    /\ flags' = flags \ {Head(scopes)} /\ scopes' = Tail(scopes)
    /\ Step("boot3")
    /\ UNCHANGED <<json, ticking, nops, nclicks, nfaults, op, args, cg, rejected, wrote, failed,
                   raised, obs, ed, st, sm, bt>>

\* the end of that with block
Boot_RunningScope ==
    /\ pc = "boot2"
    /\ LeaveScope
    /\ Step("boot3")
    /\ UNCHANGED <<json, ticking, nops, nclicks, nfaults, op, args, cg, rejected, wrote, failed,
                   raised, obs, ed, st, sm, bt>>

\* SceneManager.setup_ui calls refresh_scenes; then mainloop()
Boot_SceneManager ==
    /\ pc = "boot3"
    /\ \E ok \in Oks :
          Signal(ok, FileFlags.REQUEST_SCENES, "rs_read",
                 <<[ret |-> "idle", exc |-> "fatal"]>>,
                 <<[ret |-> "idle", exc |-> "fatal"]>>, raised)
    /\ UNCHANGED <<json, ticking, nops, nclicks, op, args, cg, rejected, wrote, failed,
                   obs, ed, st, sm, bt>>

\* an on_closing that forgets placement_mode.flag
OnClosingKeepsPlacement ==
    /\ Command("on_closing", NoArgs)
    /\ flags' = flags \ {FileFlags.SHOW_COLLIDERS, FileFlags.RUNNING}
    /\ pc' = "exited" /\ stack' = <<>> /\ result' = "returned"
    /\ ticking' = FALSE
    /\ rejected' = "no" /\ wrote' = {} /\ failed' = {} /\ raised' = {}
    /\ UNCHANGED <<json, scopes, nfaults, cg, ed, st, sm, bt>>

\* on_closing: the three flags are removed and the main loop quits
OnClosing ==
    /\ Command("on_closing", NoArgs)
    /\ flags' = flags \ {FileFlags.SHOW_COLLIDERS, FileFlags.RUNNING, FileFlags.PLACEMENT}
    /\ pc' = "exited" /\ stack' = <<>> /\ result' = "returned"
    /\ ticking' = FALSE
    /\ rejected' = "no" /\ wrote' = {} /\ failed' = {} /\ raised' = {}
    /\ UNCHANGED <<json, scopes, nfaults, cg, ed, st, sm, bt>>

(* ------------------------------------------------------------------ *)
(* The system                                                           *)
(* ------------------------------------------------------------------ *)
Boot ==
    \/ Boot_SceneTree \/ Boot_ObjectEditor \/ Boot_UpdateLoop
    \/ Boot_RunningScope \/ Boot_SceneManager
    \/ RefreshNodes_Read \/ RefreshScenes_Read

SceneTreeWindow ==
    \/ RefreshNodes \/ CallRefreshNodes \/ OpExit
    \/ AddNode \/ AddNode_Check \/ AddNode_Write \/ AddNode_Flag
    \/ RemoveNode \/ RemoveNode_Flag

ObjectEditorWindow ==
    \/ ToggleShowColliders \/ TogglePlacementMode
    \/ SelectParentNode \/ SelectParentNode_Read \/ SelectParentNode_Remove
    \/ CreateGameObject_Check \/ CreateGameObject_Write
    \/ CreateGameObject_Flag \/ CreateGameObject_Result
    \/ Tick \/ UpdateLoop_Finally
    \/ ToggleMode \/ ToggleMode_Flag
    \/ PlaceMode7Object \/ PlaceMode7Object_Status
    \/ ApplyMode7Textures \/ ApplyMode7Textures_Flag
    \/ BitmapSelectParent \/ BitmapSelectParent_Read
    \/ CreateBitmapText \/ CreateBitmapText_Flag \/ CreateBitmapText_Done

SceneManagerWindow ==
    \/ RefreshScenes \/ CallRefreshScenes \/ OpExit
    \/ CreateScene \/ CreateScene_Flag
    \/ SwitchScene \/ SwitchScene_Flag
    \/ DeleteScene \/ DeleteScene_Flag
    \/ SaveScene \/ SaveScene_Flag
    \/ LoadScene \/ LoadScene_Flag

Editor == Boot \/ SceneTreeWindow \/ ObjectEditorWindow \/ SceneManagerWindow \/ OnClosing

Engine ==
    \/ EngineAnswerNodes \/ EngineAnswerScenes \/ EngineSpawn \/ EngineHandle
    \/ EngineClick \/ EngineShutdown

Next == Editor \/ Engine

\* the editor and the engine
Spec == Init /\ [][Next]_vars

\* the editor with one of its windows in use, and the part of the engine
\* that window talks to
NextTree ==
    \/ Boot \/ SceneTreeWindow
    \/ EngineAnswerNodes \/ EngineHandle
SpecTree == Init /\ [][NextTree]_vars

NextObject ==
    \/ Boot \/ ObjectEditorWindow \/ OnClosing
    \/ EngineAnswerNodes \/ EngineSpawn \/ EngineHandle \/ EngineClick \/ EngineShutdown
SpecObject == Init /\ [][NextObject]_vars

NextScene ==
    \/ Boot \/ SceneManagerWindow
    \/ EngineAnswerScenes \/ EngineHandle
SpecScene == Init /\ [][NextScene]_vars

\* a handler that has started runs on: its code is straight-line, the only
\* wait is time.sleep(0.1), and nothing in it waits for the engine
HandlerStep == pc # "idle" /\ (Boot \/ ObjectEditorWindow)
SpecObjectLive == SpecObject /\ WF_vars(HandlerStep)

(* ------------------------------------------------------------------ *)
(* FileManager on its own: json.dump and json.load                      *)
(* ------------------------------------------------------------------ *)
\* Python values a document is built from
PyBool(b) == [t |-> "bool", b |-> b]
PyNone == [t |-> "null"]
PyList(items) == [t |-> "list", items |-> items]
PyDict(keys, vals) == [t |-> "dict", keys |-> keys, vals |-> vals]
\* a value json.dump has no encoding for (TypeError)
PySet == [t |-> "set"]

\* the text of a file, as JSON tokens
Tok(x) == [tok |-> x]
TNum(lex) == [tok |-> "num", lex |-> lex]
TStr(s) == [tok |-> "str", s |-> s]
FileText(toks) == [k |-> "text", toks |-> toks]

\* how json writes a number and what it reads a number as: an int has no
\* fraction part, a float always has one (1.0 is written 1.0, not 1)
IntLex(n) == CASE n = 0 -> "0" [] n = 1 -> "1" [] n = 10 -> "10"
FloatLex(tenths) ==
    CASE tenths = -5 -> "-0.5" [] tenths = 0 -> "0.0" [] tenths = 5 -> "0.5"
      [] tenths = 10 -> "1.0" [] tenths = 15 -> "1.5"
LexTenths(lex) ==
    CASE lex = "0.0" -> 0 [] lex = "1.0" -> 10 [] OTHER -> TenthsOfText(lex)

RECURSIVE Serialisable(_)
Serialisable(d) ==
    CASE d.t \in {"str", "int", "float", "bool", "null"} -> TRUE
      [] d.t = "list" -> \A i \in 1..Len(d.items) : Serialisable(d.items[i])
      [] d.t = "dict" -> \A i \in 1..Len(d.vals) : Serialisable(d.vals[i])
      [] OTHER -> FALSE

\* json.dump(data, f) for a value it can encode
RECURSIVE json_dump(_), DumpItems(_), DumpMembers(_, _)
json_dump(d) ==
    CASE d.t = "str" -> <<TStr(d.s)>>
      [] d.t = "int" -> <<TNum(IntLex(d.v))>>
      [] d.t = "float" -> <<TNum(FloatLex(d.v))>>
      [] d.t = "bool" -> <<Tok(IF d.b THEN "true" ELSE "false")>>
      [] d.t = "null" -> <<Tok("null")>>
      [] d.t = "list" -> <<Tok("[")>> \o DumpItems(d.items) \o <<Tok("]")>>
      [] d.t = "dict" -> <<Tok("{")>> \o DumpMembers(d.keys, d.vals) \o <<Tok("}")>>
DumpItems(items) ==
    IF items = <<>> THEN <<>>
    ELSE json_dump(Head(items))
         \o (IF Tail(items) = <<>> THEN <<>> ELSE <<Tok(",")>> \o DumpItems(Tail(items)))
DumpMembers(keys, vals) ==
    IF keys = <<>> THEN <<>>
    ELSE <<TStr(Head(keys)), Tok(":")>> \o json_dump(Head(vals))
         \o (IF Tail(keys) = <<>> THEN <<>>
             ELSE <<Tok(",")>> \o DumpMembers(Tail(keys), Tail(vals)))

\* json.load(f): the value parsed and the tokens left, or a failure
Good(val, rest) == [ok |-> TRUE, val |-> val, rest |-> rest]
\* d[key] = val on a dict under construction: a repeated key keeps its place
\* and takes the last value
SetMember(keys, vals, key, val) ==
    IF \E i \in 1..Len(keys) : keys[i] = key
    THEN [ks |-> keys, vs |-> [i \in 1..Len(vals) |-> IF keys[i] = key THEN val ELSE vals[i]]]
    ELSE [ks |-> Append(keys, key), vs |-> Append(vals, val)]
RECURSIVE ParseValue(_), ParseItems(_, _), ParseMembers(_, _, _)
ParseValue(toks) ==
    IF toks = <<>> THEN Fails
    ELSE LET h == Head(toks)
             r == Tail(toks) IN
         CASE h.tok = "str" -> Good(PyStr(h.s), r)
           [] h.tok = "num" ->
                 Good(IF h.lex \in IntTexts THEN PyInt(IntOfText(h.lex))
                      ELSE PyFloat(LexTenths(h.lex)), r)
           [] h.tok = "true" -> Good(PyBool(TRUE), r)
           [] h.tok = "false" -> Good(PyBool(FALSE), r)
           [] h.tok = "null" -> Good(PyNone, r)
           [] h.tok = "[" ->
                 IF r # <<>> /\ Head(r).tok = "]" THEN Good(PyList(<<>>), Tail(r))
                 ELSE ParseItems(r, <<>>)
           [] h.tok = "{" ->
                 IF r # <<>> /\ Head(r).tok = "}" THEN Good(PyDict(<<>>, <<>>), Tail(r))
                 ELSE ParseMembers(r, <<>>, <<>>)
           [] OTHER -> Fails
ParseItems(toks, acc) ==
    LET v == ParseValue(toks) IN
    IF ~v.ok THEN Fails
    ELSE IF v.rest = <<>> THEN Fails
    ELSE IF Head(v.rest).tok = "," THEN ParseItems(Tail(v.rest), Append(acc, v.val))
    ELSE IF Head(v.rest).tok = "]" THEN Good(PyList(Append(acc, v.val)), Tail(v.rest))
    ELSE Fails
ParseMembers(toks, keys, vals) ==
    IF Len(toks) < 2 \/ Head(toks).tok # "str" \/ toks[2].tok # ":" THEN Fails
    ELSE LET v == ParseValue(Tail(Tail(toks))) IN
         IF ~v.ok THEN Fails
         ELSE IF v.rest = <<>> THEN Fails
         ELSE LET m == SetMember(keys, vals, Head(toks).s, v.val) IN
              IF Head(v.rest).tok = "," THEN ParseMembers(Tail(v.rest), m.ks, m.vs)
              ELSE IF Head(v.rest).tok = "}" THEN Good(PyDict(m.ks, m.vs), Tail(v.rest))
              ELSE Fails
\* json.load raises on text that is no JSON value or has more after it
json_load(toks) ==
    LET v == ParseValue(toks) IN
    IF v.ok /\ v.rest = <<>> THEN Gives(v.val) ELSE Fails

\* read_json and write_json on files of text: the file holds what json.dump
\* wrote, and read_json gives what json.load makes of it
read_json_text(js, filename, ok) ==
    LET content == read_json(js, filename, ok) IN
    IF content = None THEN None
    ELSE LET loaded == json_load(content.toks) IN
         IF loaded.ok THEN loaded.val ELSE None
\* json.dump raises on a value it cannot encode, after open has truncated
HowFor(data, how) ==
    IF Serialisable(data) \/ how = "open_fails" THEN how ELSE "dump_fails"
write_json_text(js, filename, data, how) ==
    write_json_file(js, filename,
                    IF Serialisable(data) THEN FileText(json_dump(data)) ELSE Corrupt,
                    HowFor(data, how))

\* documents: scalars, lists and objects of up to MaxItems scalars, and
\* lists and objects that hold one of those
SeqsUpTo(S, n) == UNION {[1..m -> S] : m \in 0..n}
Documents ==
    LET Scalars == {PyStr(""), PyStr("a"), PyInt(0), PyInt(1), PyFloat(5), PyFloat(10),
                    PyBool(TRUE), PyBool(FALSE), PyNone}
        ItemValues == {PyInt(1), PyFloat(10)}
        MemberKeys == <<"x", "y", "name", "children">>
        Items == SeqsUpTo(ItemValues, MaxItems)
        FlatDocs == {PyList(s) : s \in Items}
                    \cup {PyDict(SubSeq(MemberKeys, 1, Len(s)), s) : s \in Items}
        NestedDocs == {PyList(<<d>>) : d \in FlatDocs}
                      \cup {PyDict(<<"name", "position">>, <<PyStr("a"), d>>) :
                                d \in FlatDocs}
    IN  Scalars \cup FlatDocs \cup NestedDocs
Unserialisable == {PySet, PyList(<<PyInt(1), PySet>>), PyDict(<<"x">>, <<PySet>>)}
\* what a file can hold beforehand: nothing, bytes that are no text, the
\* text of a document, a truncated text, two texts one after the other
FileContents ==
    {Absent, Corrupt, FileText(<<Tok("{"), TStr("x"), Tok(":")>>),
     FileText(<<TNum("1"), TNum("1")>>)}
    \cup {FileText(json_dump(d)) : d \in Documents}
FilePaths == {FileNames.TEMP_OBJECT, FileNames.NODE_OPERATION}

\* one or two calls on a directory that holds one file or none: read_json,
\* or write_json and then read_json
InitFiles ==
    /\ flags = {}
    /\ \E c \in FileContents :
          json = [f \in JsonFiles |-> IF f = FileNames.TEMP_OBJECT THEN c ELSE Absent]
    /\ pc = "fm0"
    /\ stack = <<>> /\ scopes = <<>> /\ ticking = FALSE
    /\ nops = MaxOps /\ nclicks = MaxClicks /\ nfaults = MaxFaults
    /\ op = "none" /\ args = NoArgs /\ cg = NoArgs
    /\ result = "pending" /\ rejected = "no"
    /\ wrote = {} /\ failed = {} /\ raised = {}
    /\ obs = NoObs
    /\ ed = [placement_mode |-> FALSE, is_mode7 |-> FALSE, show_colliders |-> FALSE,
             texture_path |-> "", name_entry |-> "", parent_node |-> "root",
             textures |-> FALSE, status |-> ""]
    /\ st = [tree |-> <<>>, combo |-> <<>>]
    /\ sm = [scenes |-> <<>>]
    /\ bt = [parent_node |-> "", status |-> ""]

\* FileManager.write_json(filename, data)
FM_WriteJson ==
    /\ pc = "fm0"
    /\ \E filename \in FilePaths, data \in Documents \cup Unserialisable,
          how \in WriteOutcomes :
          LET returns == write_json_result(HowFor(data, how)) IN
          /\ json' = write_json_text(json, filename, data, how)
          /\ op' = "write_json"
          /\ args' = [filename |-> filename, data |-> data, how |-> how]
          /\ wrote' = IF returns THEN {filename} ELSE {}
          /\ failed' = IF returns THEN {} ELSE {filename}
    /\ pc' = "fm1" /\ result' = "returned"
    /\ UNCHANGED <<flags, stack, scopes, ticking, nops, nclicks, nfaults, cg, rejected,
                   raised, obs, ed, st, sm, bt>>

\* FileManager.read_json(filename); before is the call made just before
FM_ReadJson ==
    /\ pc \in {"fm0", "fm1"}
    /\ \E filename \in FilePaths, ok \in BOOLEAN :
          LET data == read_json_text(json, filename, ok) IN
          /\ op' = "read_json"
          /\ args' = [filename |-> filename, ok |-> ok, before |-> args]
          /\ obs' = [file |-> filename, data |-> data, nodata |-> (data = None),
                     answered |-> FALSE, clicks |-> 0]
    /\ pc' = IF pc = "fm0" THEN "fm1" ELSE "fm2"
    /\ result' = "returned"
    /\ UNCHANGED <<flags, json, stack, scopes, ticking, nops, nclicks, nfaults, cg,
                   rejected, wrote, failed, raised, ed, st, sm, bt>>

NextFiles == FM_WriteJson \/ FM_ReadJson
SpecFiles == InitFiles /\ [][NextFiles]_vars

\* hierarchies handed to flatten_hierarchy: up to MaxItems roots, each a
\* leaf (with no children field, or an empty one) or a node with up to
\* MaxItems leaves; the specification's example; a node without "name"
Hierarchies ==
    LET Leaves == {[name |-> "a"], [name |-> "b", children |-> <<>>]}
        Parents == {[name |-> n, children |-> c] :
                       n \in {"a", "b"}, c \in SeqsUpTo(Leaves, MaxItems) \ {<<>>}}
    IN  SeqsUpTo(Leaves \cup Parents, MaxItems) \cup {H_spec, H_bad}

InitFlatten ==
    /\ flags = {}
    /\ json = [f \in JsonFiles |-> Absent]
    /\ pc = "fh0"
    /\ stack = <<>> /\ scopes = <<>> /\ ticking = FALSE
    /\ nops = MaxOps /\ nclicks = MaxClicks /\ nfaults = MaxFaults
    /\ op = "none" /\ cg = NoArgs
    /\ \E nodes \in Hierarchies : args = [nodes |-> nodes]
    /\ result = "pending" /\ rejected = "no"
    /\ wrote = {} /\ failed = {} /\ raised = {}
    /\ obs = NoObs
    /\ ed = [placement_mode |-> FALSE, is_mode7 |-> FALSE, show_colliders |-> FALSE,
             texture_path |-> "", name_entry |-> "", parent_node |-> "root",
             textures |-> FALSE, status |-> ""]
    /\ st = [tree |-> <<>>, combo |-> <<>>]
    /\ sm = [scenes |-> <<>>]
    /\ bt = [parent_node |-> "", status |-> ""]

\* FileManager.flatten_hierarchy(nodes): the list, or KeyError on a node
\* without "name"
FM_FlattenHierarchy ==
    /\ pc = "fh0"
    /\ pc' = "fh1"
    /\ op' = "flatten_hierarchy"
    /\ IF WellFormed(args.nodes)
       THEN /\ result' = "returned"
            /\ obs' = [NoObs EXCEPT !.data = [k |-> "list",
                                              v |-> flatten_hierarchy(args.nodes)]]
       ELSE result' = "raised" /\ obs' = NoObs
    /\ UNCHANGED <<flags, json, stack, scopes, ticking, nops, nclicks, nfaults, args, cg,
                   rejected, wrote, failed, raised, ed, st, sm, bt>>

SpecFlatten == InitFlatten /\ [][FM_FlattenHierarchy]_vars

\* the object editor with its timer: a handler under way goes on, and a run
\* of update_loop that after(16, ...) has scheduled takes place
SpecObjectTimer == SpecObject /\ WF_vars(HandlerStep) /\ WF_vars(Tick)

(* ------------------------------------------------------------------ *)
(* Properties                                                           *)
(* ------------------------------------------------------------------ *)
\* a step in which the editor leaves its innermost with write_flag block
ScopeExit == scopes # <<>> /\ scopes' = Tail(scopes)

\* C1, as the specification states it: once a with write_flag block has
\* exited (normally, by return, or because the block raised), the flag file
\* its signal created no longer exists.
C1_FlagRemovedOnExit == [][ScopeExit => Head(scopes) \notin flags']_vars

\* C1: leaving a with write_flag block removes nothing: a flag file that is
\* there when the block exits (normally, by return, or after the block
\* raised) is still there after the exit.
C1_FlagKeptOnExit ==
    [][ScopeExit /\ Head(scopes) \in flags => Head(scopes) \in flags']_vars

\* add_node's with block has raised (the hierarchy read has a node without
\* "name") and exited, and request_nodes.flag is still there
C1_Witness ==
    /\ pc = "an_write" /\ scopes = <<>>
    /\ obs.data = [k |-> "list", v |-> H_bad]
    /\ FileFlags.REQUEST_NODES \in raised \cap flags

\* the flags the editor raises towards the engine
RequestFlags ==
    {FileFlags.REQUEST_NODES, FileFlags.NODE_OPERATION, FileFlags.SPAWN_OBJECT,
     FileFlags.SCENE_OPERATION, FileFlags.SWITCH_SCENE, FileFlags.SAVE_SCENE,
     FileFlags.LOAD_SCENE, FileFlags.REQUEST_SCENES, FileFlags.MODE_SWITCH}

\* C2: every step that is not the engine's leaves the request flags that
\* exist, and creates no click_event.flag; and every run of update_loop that
\* ends in the main loop has deleted click_event.flag.
C2_FlagsDeletedByOtherSide ==
    [][Engine \/
          /\ (RequestFlags \cap flags) \subseteq flags'
          /\ FileFlags.CLICK_EVENT \in flags' => FileFlags.CLICK_EVENT \in flags
          /\ op' = "update_loop" /\ pc' = "idle"
                => FileFlags.CLICK_EVENT \notin flags']_vars

\* update_loop has used a click to spawn an object: click_event.flag is
\* gone, the request flags the handler raised are still there
C2_Witness ==
    /\ pc = "idle" /\ op = "update_loop" /\ nclicks < MaxClicks
    /\ FileFlags.CLICK_EVENT \notin flags
    /\ FileFlags.SPAWN_OBJECT \in raised
    /\ raised \subseteq flags

\* the requests that carry a payload, and the payload file of each
PayloadFlags ==
    {FileFlags.NODE_OPERATION, FileFlags.SPAWN_OBJECT, FileFlags.SCENE_OPERATION,
     FileFlags.SWITCH_SCENE, FileFlags.SAVE_SCENE, FileFlags.LOAD_SCENE,
     FileFlags.MODE_SWITCH, MODE7_TEXTURES_FLAG}
PayloadOf(flag) ==
    CASE flag = FileFlags.NODE_OPERATION -> FileNames.NODE_OPERATION
      [] flag = FileFlags.SPAWN_OBJECT -> FileNames.TEMP_OBJECT
      [] flag = FileFlags.SCENE_OPERATION -> FileNames.SCENE_OPERATION
      [] flag = FileFlags.SWITCH_SCENE -> FileNames.SWITCH_SCENE
      [] flag = FileFlags.SAVE_SCENE -> FileNames.LOAD_SCENE
      [] flag = FileFlags.LOAD_SCENE -> FileNames.LOAD_SCENE
      [] flag = FileFlags.MODE_SWITCH -> FileNames.MODE_SWITCH
      [] flag = MODE7_TEXTURES_FLAG -> MODE7_TEXTURES

\* C3: in every operation that sends a payload, the payload file has been
\* written by the time the operation's flag is raised, so that the flag of
\* a request is never there while the payload of that same request has not
\* been written.
C3_PayloadWrittenBeforeFlag ==
    \A flag \in PayloadFlags \cap raised : PayloadOf(flag) \in wrote

\* this step is the write_json that puts a request's payload in filename
WritesPayload(filename) ==
    /\ filename \in wrote'
    /\ pc = "idle" \/ filename \notin wrote

\* C4: the editor never writes a channel's payload file while a flag raised
\* for that channel is still pending (node_operation.json with
\* node_operation.flag, scene_operation.json with scene_operation.flag,
\* load_scene.json with save_scene.flag or load_scene.flag, and so on).
C4_NoPayloadWriteWhilePending ==
    [][\A flag \in PayloadFlags :
          WritesPayload(PayloadOf(flag)) => flag \notin flags]_vars

\* C5: a response file read by an exchange that the engine has not answered
\* (the request flag is still there at the read) yields no data: the
\* exchange is never taken as answered on the strength of an older response.
C5_UnansweredReadsNoData ==
    obs.file # "-" /\ ~obs.answered => obs.nodata

\* the waits of the request/response exchanges: the request flag is raised,
\* time.sleep(0.1) is running, the response file is read next
ReadLabels == {"rn_read", "an_read", "sp_read", "cg_read", "rs_read", "bs_read"}

\* C6: an exchange that has signalled is resolved by the one read that
\* follows its one wait, with data or empty, and is not signalled or waited
\* for again; whether or not the engine ever takes a step the wait ends, and
\* the handler that made the exchange comes back to the main loop, where
\* the next operation can start. (At start-up, where there is no main loop
\* yet, the program can instead have been ended by a file operation that
\* raised.)
C6_ExchangeResolvesOnce ==
    /\ [][Engine \/ (pc \in ReadLabels => /\ pc' \notin ReadLabels
                                          /\ obs'.file # "-")]_vars
    /\ (pc \in ReadLabels) ~> (pc \notin ReadLabels)
    /\ (pc \in ReadLabels /\ op # "boot") ~> (pc = "idle")
    /\ (pc \in ReadLabels /\ op = "boot")
          ~> (pc = "idle" \/ (pc = "exited" /\ result = "raised" /\ nfaults < MaxFaults))

\* a click placement whose name check the engine never answered: it read no
\* data, went on to the spawn request, and the editor is idle again
C6_Witness ==
    /\ pc = "idle" /\ op = "update_loop"
    /\ obs.file = FileNames.AVAILABLE_NODES /\ ~obs.answered /\ obs.nodata
    /\ {FileFlags.REQUEST_NODES, FileFlags.SPAWN_OBJECT} \subseteq raised

\* C7: a file operation that fails (the step spends a failure: a flag file
\* cannot be created, a JSON file cannot be read or written) never lets an
\* exception out of the operation that performed it and never ends the
\* editor.
C7_FailureNeverPropagates ==
    [][nfaults' < nfaults => result' # "raised" /\ pc' # "exited"]_vars

\* C8, as the specification states it: an operation rejected by a validation
\* has created or modified no flag file and no payload file at all.
C8_RejectedTouchesNoFile ==
    rejected # "no" => wrote = {} /\ failed = {} /\ raised = {}

\* the inputs the validations are there to refuse
NotANumber(text) == text \notin IntTexts \cup FloatTexts
NotAnInteger(text) == text \notin IntTexts
InvalidInput ==
    \/ op = "add_node" /\ (args.name = "" \/ args.parent = "")
    \/ op = "create_scene" /\ args.name = ""
    \/ op \in {"switch_scene", "delete_scene"} /\ args.selection = 0
    \/ /\ op = "place_mode7_object"
       /\ \/ NotANumber(args.x) \/ NotANumber(args.y)
          \/ ed.name_entry = "" \/ ed.parent_node = ""
    \/ /\ op = "create_bitmap_text"
       /\ \/ NotAnInteger(args.x) \/ NotAnInteger(args.y)
          \/ args.name = "" \/ bt.parent_node = ""

\* C8: an operation rejected by a validation has written (or tried to
\* write) no payload file and raised no operation flag. The validations of
\* the input alone (empty name, no parent, no selection, non-numeric input)
\* reject before any file at all; the duplicate-name check of add_node and
\* create_game_object comes after request_nodes.flag has been raised to
\* fetch the hierarchy, and that flag is the only file such an operation
\* has created.
C8_RejectedWritesNoPayload ==
    /\ rejected # "no" =>
          wrote = {} /\ failed = {} /\ raised \subseteq {FileFlags.REQUEST_NODES}
    /\ rejected \notin {"no", "duplicate", "bad_position"} => raised = {}
    /\ InvalidInput =>
          rejected # "no" /\ wrote = {} /\ failed = {} /\ raised = {}

\* a Mode7 placement rejected as a duplicate name: request_nodes.flag was
\* raised for the check, nothing else was written
C8_Witness ==
    /\ pc = "idle" /\ op = "place_mode7_object" /\ rejected = "duplicate"
    /\ raised = {FileFlags.REQUEST_NODES} /\ FileFlags.REQUEST_NODES \in flags
    /\ wrote = {} /\ failed = {}

\* name is in the flattened hierarchy of the document read
InHierarchy(data, name) ==
    /\ data.k = "list" /\ WellFormed(data.v)
    /\ InList(name, flatten_hierarchy(data.v))

\* C9: add_node gets to its write_json and its node_operation.flag only with
\* a name that is not in the flattened hierarchy it read; with a name that
\* is there it is rejected as a duplicate and has returned without writing
\* node_operation.json and without raising node_operation.flag.
C9_DuplicateAddRejected ==
    op = "add_node" =>
        /\ pc \in {"an_write", "an_flag", "call_rn"} => ~InHierarchy(obs.data, args.name)
        /\ rejected = "duplicate" =>
              /\ InHierarchy(obs.data, args.name)
              /\ pc = "idle" /\ result = "returned"
              /\ FileNames.NODE_OPERATION \notin wrote \cup failed
              /\ FileFlags.NODE_OPERATION \notin raised

\* add_node("a") found "a" in the hierarchy of the specification's example
\* and has returned
C9_Witness ==
    /\ op = "add_node" /\ args.name = "a" /\ rejected = "duplicate"
    /\ obs.data = [k |-> "list", v |-> H_spec]
    /\ pc = "idle" /\ json[FileNames.NODE_OPERATION] = Absent

\* C10: remove_node with the root sentinel selected, in either spelling,
\* writes (or tries to write) no node_operation.json and raises no
\* node_operation.flag.
C10_RootNeverRemoved ==
    op = "remove_node" /\ args.node \in {"root", "Root"} =>
        /\ FileNames.NODE_OPERATION \notin wrote \cup failed
        /\ FileFlags.NODE_OPERATION \notin raised

\* the coordinate texts that denote a number below 0 or above 1
OutsideUnit(text) == text \in {"-0.5", "1.5", "10"}

\* C11: place_mode7_object with x or y below 0 or above 1 writes (or tries
\* to write) no temp_object.json and raises neither spawn_object.flag nor
\* request_nodes.flag.
C11_OutOfRangeNotPlaced ==
    op = "place_mode7_object" /\ (OutsideUnit(args.x) \/ OutsideUnit(args.y)) =>
        /\ rejected # "no"
        /\ FileNames.TEMP_OBJECT \notin wrote \cup failed
        /\ raised \cap {FileFlags.SPAWN_OBJECT, FileFlags.REQUEST_NODES} = {}

\* a Mode7 placement with texture, name and parent in place and x = -0.5 has
\* been refused by the range check
C11_Witness ==
    /\ pc = "idle" /\ op = "place_mode7_object" /\ rejected = "range"
    /\ args.x = "-0.5" /\ ed.status = "range"
    /\ ed.name_entry # "" /\ ed.texture_path # ""

\* C12: delete_scene with "main" selected is rejected whatever the answer to
\* the confirmation: it writes (or tries to write) no scene_operation.json
\* and raises no scene_operation.flag.
C12_MainNeverDeleted ==
    op = "delete_scene" /\ args.scene = "main" =>
        /\ rejected = "main"
        /\ FileNames.SCENE_OPERATION \notin wrote \cup failed
        /\ FileFlags.SCENE_OPERATION \notin raised

\* "main" was selected in a list of two scenes, the user would have
\* confirmed, and delete_scene has returned with nothing written
C12_Witness ==
    /\ pc = "idle" /\ op = "delete_scene" /\ rejected = "main"
    /\ args.scene = "main" /\ args.confirm /\ Len(sm.scenes) = 2
    /\ wrote = {} /\ raised = {}

\* texts that are no JSON document
BrokenTexts ==
    {FileText(<<Tok("{"), TStr("x"), Tok(":")>>), FileText(<<TNum("1"), TNum("1")>>)}

\* C13: read_json returns (it never raises): the document, when the file
\* holds the text of one and the read goes through; nothing when the file
\* is absent, cannot be read, or holds no JSON document; and the call
\* changes no JSON file and no flag file.
C13_ReadJsonNeverRaises ==
    /\ [](op = "read_json" =>
            LET content == json[args.filename] IN
            /\ result = "returned"
            /\ content \in {Absent, Corrupt} \cup BrokenTexts \/ ~args.ok
                  => obs.data = None
            /\ \A d \in Documents :
                  content = FileText(json_dump(d)) /\ args.ok => obs.data = d)
    /\ [][op' = "read_json" /\ pc' # pc => json' = json /\ flags' = flags]_vars

\* read_json on a file whose text stops in the middle of an object
C13_Witness ==
    /\ op = "read_json" /\ args.ok /\ result = "returned"
    /\ json[args.filename] = FileText(<<Tok("{"), TStr("x"), Tok(":")>>)
    /\ obs.data = None

\* C14: write_json returns (it never raises): False when open or json.dump
\* fails, the data not being encodable included, and True otherwise; after
\* True the file holds the text of the new document and nothing else,
\* whatever it held before.
C14_WriteJsonResult ==
    op = "write_json" =>
        LET f == args.filename
            failure == args.how # "ok" \/ args.data \in Unserialisable IN
        /\ result = "returned"
        /\ failure => wrote = {} /\ failed = {f}
        /\ ~failure =>
              /\ wrote = {f} /\ failed = {}
              /\ json[f] \notin {Absent, Corrupt}
              /\ json_load(json[f].toks) = Gives(args.data)

\* write_json of a list holding a set: json.dump raised, False was returned
C14_Witness ==
    /\ op = "write_json" /\ args.how = "ok"
    /\ args.data = PyList(<<PyInt(1), PySet>>)
    /\ failed = {args.filename} /\ wrote = {}
    /\ json[args.filename] = Corrupt

\* C15: a read_json that goes through, made right after a write_json of a
\* document to the same path returned True, returns that document.
C15_WriteThenReadRoundTrips ==
    op = "read_json" /\ pc = "fm2" /\ args.ok /\ wrote = {args.filename} =>
        obs.data = args.before.data

\* an object holding a string and a nested object with an int and a float
\* of the same value has come back as it was written
C15_Witness ==
    /\ op = "read_json" /\ pc = "fm2" /\ args.ok /\ wrote = {args.filename}
    /\ args.before.data =
          PyDict(<<"name", "position">>,
                 <<PyStr("a"), PyDict(<<"x", "y">>, <<PyInt(1), PyFloat(10)>>)>>)
    /\ obs.data = args.before.data

\* the nodes of a hierarchy by position: <<i>> is the i-th root, p \o <<j>>
\* the j-th child of the node at p
ChildrenOf(node) == IF "children" \in DOMAIN node THEN node.children ELSE <<>>
RECURSIVE PositionsIn(_)
PositionsIn(nodes) ==
    UNION {{<<i>>} \cup {<<i>> \o q : q \in PositionsIn(ChildrenOf(nodes[i]))} :
              i \in 1..Len(nodes)}
RECURSIVE NodeAt(_, _)
NodeAt(nodes, p) ==
    IF Len(p) = 1 THEN nodes[p[1]] ELSE NodeAt(ChildrenOf(nodes[p[1]]), Tail(p))
\* p comes before q in depth-first pre-order: p is an ancestor of q, or at
\* the first index where they differ p has the earlier child
Precedes(p, q) ==
    /\ p # q
    /\ \/ Len(p) < Len(q) /\ SubSeq(q, 1, Len(p)) = p
       \/ \E i \in 1..Len(p) :
             /\ i <= Len(q) /\ p[i] < q[i]
             /\ \A j \in 1..(i - 1) : p[j] = q[j]

\* C16: flatten_hierarchy returns one name per node, the name of the node
\* at position p standing after exactly the names of the nodes that precede
\* p in depth-first pre-order (a node before its children, children in list
\* order; equal names are kept, a node without children field is a leaf);
\* the specification's example gives root, a, b, c.
C16_FlattenIsPreOrder ==
    op = "flatten_hierarchy" /\ WellFormed(args.nodes) =>
        LET P == PositionsIn(args.nodes)
            names == obs.data.v IN
        /\ result = "returned"
        /\ Len(names) = Cardinality(P)
        /\ \A p \in P :
              names[Cardinality({q \in P : Precedes(q, p)}) + 1] = NodeAt(args.nodes, p).name
        /\ args.nodes = H_spec => names = <<"root", "a", "b", "c">>

\* two roots, the first with two leaves of the same name as itself
C16_Witness ==
    /\ op = "flatten_hierarchy"
    /\ args.nodes = <<[name |-> "a", children |-> <<[name |-> "a"], [name |-> "a"]>>],
                      [name |-> "b", children |-> <<>>]>>
    /\ obs.data.v = <<"a", "a", "a", "b">>

\* C17: one run of update_loop reads click_event.json at most once and
\* raises spawn_object.flag at most once (a step of the run that creates the
\* flag finds that the run had not raised it before).
C17_OneClickPerTick ==
    /\ [](op = "update_loop" => obs.clicks <= 1)
    /\ [][op = "update_loop" /\ op' = "update_loop"
             /\ FileFlags.SPAWN_OBJECT \in flags' \ flags
          => FileFlags.SPAWN_OBJECT \notin raised]_vars

\* a run of update_loop that read the click, wrote the object and asked for
\* the spawn is back in the main loop
C17_Witness ==
    /\ pc = "idle" /\ op = "update_loop"
    /\ obs.clicks = 1
    /\ FileNames.TEMP_OBJECT \in wrote
    /\ FileFlags.SPAWN_OBJECT \in raised
    /\ json[FileNames.CLICK_EVENT] = Absent

\* C18: a run of update_loop from the timer that finds no running.flag ends
\* the editor in that run, touching no file (no click event is read or
\* removed, nothing is written or raised) and scheduling no further run;
\* and once running.flag is gone after start-up the editor eventually ends.
C18_RunningFlagSentinel ==
    /\ [][Tick /\ FileFlags.RUNNING \notin flags
          => /\ pc' = "exited" /\ ~ticking'
             /\ flags' = flags /\ json' = json
             /\ obs'.clicks = 0 /\ wrote' = {} /\ raised' = {}]_vars
    /\ (op # "boot" /\ FileFlags.RUNNING \notin flags) ~> (pc = "exited")

\* C19: when create_game_object, after raising spawn_object.flag and waiting,
\* finds spawn_error.json, the file is gone when create_game_object returns.
C19_SpawnErrorConsumed ==
    [][pc = "cg_check" /\ pc' # "cg_check" /\ json[SPAWN_ERROR] # Absent
          => json'[SPAWN_ERROR] = Absent]_vars

\* C20: whatever spawn payload temp_object.json holds, its position follows
\* the conventions: with is_mode7 true, x and y are floating-point numbers
\* from 0 to 1; with is_mode7 false, and for a bitmap_text (which has no
\* is_mode7), x and y are integers.
C20_CoordinateConventions ==
    LET d == json[FileNames.TEMP_OBJECT] IN
    HasKey(d, "position") =>
        LET x == d.position.x
            y == d.position.y IN
        IF HasKey(d, "is_mode7") /\ d.is_mode7
        THEN /\ x.t = "float" /\ 0 <= x.v /\ x.v <= 10
             /\ y.t = "float" /\ 0 <= y.v /\ y.v <= 10
        ELSE x.t = "int" /\ y.t = "int"

\* a click at (3, 4.5) has been placed: the payload says (3, 4), not Mode7
C20_Witness ==
    /\ op = "update_loop"
    /\ FileNames.TEMP_OBJECT \in wrote
    /\ HasKey(json[FileNames.TEMP_OBJECT], "is_mode7")
    /\ ~json[FileNames.TEMP_OBJECT].is_mode7
    /\ json[FileNames.TEMP_OBJECT].position = [x |-> [t |-> "int", v |-> 3],
                                               y |-> [t |-> "int", v |-> 4]]

C22_CollidersFlagMatchesCheckbox ==
    op # "on_closing" => (FileFlags.SHOW_COLLIDERS \in flags <=> ed.show_colliders)

\* C23: whenever the editor is back in its main loop, mode_switch.json holds
\* {mode7: b} with b the editor's is_mode7 (or toggle_mode has never run and
\* the editor is in 2D); and a toggle_mode that has ended has raised
\* mode_switch.flag, after writing that payload.
C23_ModeSwitchMatchesMode ==
    pc = "idle" =>
        /\ \/ json[FileNames.MODE_SWITCH] = [k |-> "dict", mode7 |-> ed.is_mode7]
           \/ json[FileNames.MODE_SWITCH] = Absent /\ ~ed.is_mode7
        /\ op = "toggle_mode" =>
              /\ FileNames.MODE_SWITCH \in wrote
              /\ FileFlags.MODE_SWITCH \in raised

\* C24, as the specification states it: a run of update_loop that began
\* with click_event.flag present ends with click_event.flag and
\* click_event.json absent; and a run attempts a spawn only with click-to-
\* place on and click data read, and otherwise writes no spawn payload.
C24_ClickFilesGoneAfterAnyTick ==
    /\ [][Engine \/
          (/\ op' = "update_loop" /\ pc' \in {"idle", "exited"}
           /\ obs'.clicks = 1 \/ (pc = "idle" /\ FileFlags.CLICK_EVENT \in flags)
           => /\ FileFlags.CLICK_EVENT \notin flags'
              /\ json'[FileNames.CLICK_EVENT] = Absent)]_vars
    /\ [][Tick /\ FileFlags.REQUEST_NODES \in raised'
             => ed.placement_mode /\ Truthy(json[FileNames.CLICK_EVENT])]_vars
    /\ [](op = "update_loop" /\ (wrote \cup failed \cup raised) # {}
             => ed.placement_mode /\ obs.clicks = 1)

\* C24: a run of update_loop that found running.flag and click_event.flag
\* (so that it read the click) ends with click_event.flag and
\* click_event.json absent, whether it returns or raises; it enters
\* create_game_object only with click-to-place on and click data read, and
\* otherwise writes no payload and raises no flag.
C24_ClickFilesGoneAfterTick ==
    /\ [][Engine \/
          (op' = "update_loop" /\ pc' \in {"idle", "exited"} /\ obs'.clicks = 1
           => /\ FileFlags.CLICK_EVENT \notin flags'
              /\ json'[FileNames.CLICK_EVENT] = Absent)]_vars
    /\ [][Tick /\ FileFlags.REQUEST_NODES \in raised'
             => ed.placement_mode /\ Truthy(json[FileNames.CLICK_EVENT])]_vars
    /\ [](op = "update_loop" /\ (wrote \cup failed \cup raised) # {}
             => ed.placement_mode /\ obs.clicks = 1)

\* a click without "y" made the run raise, and both click files are gone
C24_Witness ==
    /\ op = "update_loop" /\ pc = "idle" /\ result = "raised"
    /\ obs.clicks = 1
    /\ FileFlags.CLICK_EVENT \notin flags
    /\ json[FileNames.CLICK_EVENT] = Absent

\* C25: whenever the editor is in its main loop the next run of update_loop
\* is scheduled: no run that found running.flag has ended without
\* after(16, update_loop), whatever click_event.json held and whatever
\* became of the spawn.
C25_PollingNeverStops ==
    pc = "idle" => ticking

\* C26: no step of the editor but on_closing removes running.flag; and when
\* start-up is over and neither the user nor the engine has done anything
\* yet, running.flag is there and the next run of update_loop is scheduled.
C26_RunningFlagKept ==
    /\ [][Engine \/ (FileFlags.RUNNING \in flags
                        => FileFlags.RUNNING \in flags' \/ op' = "on_closing")]_vars
    /\ [](pc = "idle" /\ nops = MaxOps => FileFlags.RUNNING \in flags /\ ticking)

\* start-up has left the with block that created running.flag
C26_Witness ==
    /\ pc = "boot3" /\ scopes = <<>>
    /\ FileFlags.RUNNING \in flags \cap raised
    /\ ticking

\* C27: until the window is closed, placement_mode.flag exists exactly when
\* the editor's placement_mode is true.
C27_PlacementFlagMatchesMode ==
    op # "on_closing" => (FileFlags.PLACEMENT \in flags <=> ed.placement_mode)

\* C28: while the editor is in Mode7 no run of update_loop writes a spawn
\* payload for a click.
C28_NoClickPlacementInMode7 ==
    op = "update_loop" /\ ed.is_mode7 => FileNames.TEMP_OBJECT \notin wrote

\* C29: when the read that resolves the exchange of refresh_nodes yields no
\* data, the tree and the two selection lists are after it what they were
\* before; when the read of refresh_scenes yields no data, so is the scene
\* list.
C29_NoDataLeavesViews ==
    /\ [][pc = "rn_read" /\ pc' # "rn_read" /\ obs'.nodata => st' = st]_vars
    /\ [][pc = "rs_read" /\ pc' # "rs_read" /\ obs'.nodata => sm' = sm]_vars

\* the Refresh button read no data and the tree built at start-up is still
\* displayed
C29_Witness ==
    /\ op = "refresh_nodes" /\ pc = "idle"
    /\ obs.file = FileNames.AVAILABLE_NODES /\ obs.nodata
    /\ st.tree = H_spec
    /\ st.combo = <<"root", "a", "b", "c">>

\* C30: create_game_object, called for a click (2D) or by place_mode7_object
\* (Mode7), goes on to its payload only with a name that is not in the
\* flattened hierarchy it read; with a name that is there it has written no
\* temp_object.json and raised no spawn_object.flag.
C30_DuplicateObjectNotSpawned ==
    op \in {"update_loop", "place_mode7_object"} /\ obs.file = FileNames.AVAILABLE_NODES =>
        /\ pc \in {"cg_write", "cg_flag", "cg_check"} => ~InHierarchy(obs.data, ed.name_entry)
        /\ InHierarchy(obs.data, ed.name_entry) =>
              /\ rejected = "duplicate"
              /\ FileNames.TEMP_OBJECT \notin wrote \cup failed
              /\ FileFlags.SPAWN_OBJECT \notin raised

\* a Mode7 placement named "a" found "a" in the hierarchy of the
\* specification's example
C30_Witness ==
    /\ op = "place_mode7_object" /\ rejected = "duplicate"
    /\ cg.is_mode7
    /\ ed.name_entry = "a" /\ obs.data = [k |-> "list", v |-> H_spec]
    /\ json[FileNames.TEMP_OBJECT] = Absent

\* C31: an operation whose write_json returned false has not raised the flag
\* that goes with that payload.
C31_NoFlagAfterFailedWrite ==
    \A flag \in PayloadFlags : PayloadOf(flag) \in failed => flag \notin raised

\* C32: a step that reports an object as created (create_game_object's
\* 'Created object at ...' when it has shown no spawn error, or
\* place_mode7_object's 'Created Mode7 object at ...') belongs to a request
\* that has written temp_object.json and raised spawn_object.flag and was
\* not rejected as a duplicate name.
C32_CreatedOnlyWhenSpawned ==
    [][\/ PlaceMode7Object_Status
       \/ CreateGameObject_Result /\ ed'.status = "created" /\ json' = json
       => /\ FileNames.TEMP_OBJECT \in wrote'
          /\ FileFlags.SPAWN_OBJECT \in raised'
          /\ rejected' # "duplicate"]_vars

====
